---- MODULE Spec2Model ----
(***************************************************************************)
(* Orchestration core of the chat-driven operations assistant:             *)
(*   - proposal journal (action-queue) and the approval gateway,           *)
(*   - the message loop with its watermarks,                               *)
(*   - the ops-runner: signed dispatch, run registry, background runs.     *)
(* Each part has its own specification over the shared variables.          *)
(***************************************************************************)
EXTENDS Integers, Sequences, FiniteSets, TLC

\* ------------------------------------------------------------------------
\* Bounds of the model
\* ------------------------------------------------------------------------
MaxProposals == 2
MaxRequests == 2
MaxRuns == 2
MaxDispatches == 2
MaxMessages == 2
MaxTime == 2

NULL == "null"

\* ------------------------------------------------------------------------
\* State
\* ------------------------------------------------------------------------
VARIABLES
  queue,        \* action-queue.json: the proposal journal (array of records)
  now,          \* Date.now() of the core process
  handlers,     \* approval handlers started so far (text command or callback)
  execCalls,    \* calls of executeApprovedActions made so far
  posts         \* dispatch POSTs sent to the runner so far

approvalVars == <<queue, now, handlers, execCalls, posts>>

VARIABLES
  webhookSecret,  \* OPS_RUNNER_WEBHOOK_SECRET of the runner process ("" when unset)
  maxParallel,    \* DISPATCH_MAX_PARALLEL
  runs,           \* table runs of jobs.db: run id -> row
  controllers,    \* keys of backgroundRunAbortControllers
  aborted,        \* run ids whose AbortController was aborted
  worker,         \* per run: position of the asynchronous worker
  disp,           \* the dispatch being executed by handleDispatch
  accepted,       \* number of dispatches accepted so far
  lastReq         \* the HTTP request handled last, with its response

runnerVars == <<webhookSecret, maxParallel, runs, controllers, aborted, worker,
                disp, accepted, lastReq>>

VARIABLES
  messages,            \* table messages of the core database, in insertion order
  clock,               \* the second Telegram stamps on a message sent now
  lastTimestamp,       \* global watermark of the message loop (0 is '')
  lastAgentTimestamp,  \* per-chat agent watermark (0 is absent)
  savedState,          \* router_state.json
  loop,                \* position of the message loop and of processMessage
  lastProc,            \* the processMessage call that ended last, with its outcome
  raised,              \* messages whose latest processMessage call raised
  unsent,              \* messages whose latest reply or approval prompt was not delivered
  prompted             \* the messages put into planner prompts so far

loopVars == <<messages, clock, lastTimestamp, lastAgentTimestamp, savedState,
              loop, lastProc, raised, unsent, prompted>>

VARIABLES
  execConfig,   \* the execution switches of the core process
  exec,         \* the executeApprovedActions call in progress or returned last
  sentActions   \* every action that was in the body of a POST to the runner

executorVars == <<execConfig, exec, sentActions>>

VARIABLES
  ipc,     \* data/ipc: files waiting, quarantined and unlinked, and what was sent
  tasks,   \* table scheduled_tasks of the core database
  groups   \* registered_groups.json as held in memory: chat id -> folder

ipcVars == <<ipc, tasks, groups>>

VARIABLES
  turn,       \* the processMessage call from runAgent on, and how the last one ended
  emptyPlan   \* the actions of the shared object EMPTY_PLAN

turnVars == <<turn, emptyPlan>>

VARIABLES
  disk   \* the JSON documents under the data directory as the file system holds them

diskVars == <<disk>>

VARIABLES
  contract,  \* a plan, its serialized text and the result of parsing the text
  filter     \* the command or url handed to a safety filter last, and the verdict

lateVars == <<contract, filter>>

\* the parts added after the first five, left alone by the specifications of
\* the other parts
sideVars == <<ipcVars, turnVars, diskVars, lateVars>>

vars == <<approvalVars, runnerVars, loopVars, executorVars, sideVars>>

\* ------------------------------------------------------------------------
\* Chats, ids, actions
\* ------------------------------------------------------------------------
Chats == {"c1", "c2"}

\* the chats whose turns produce proposals in the approval specification
ProposalChats == {"c1"}

\* createId(): `ap-<ms>-<random>`; the k-th record of the journal gets id k
createId(k) == k

\* the ids a user can type after /approve or /deny, or press as a button;
\* 0 is an id no record carries
TypedIds == 0..MaxProposals

SshUptime == [type |-> "ssh", arg |-> "uptime", mode |-> "", requiresApproval |-> TRUE]
SshReboot == [type |-> "ssh", arg |-> "reboot", mode |-> "", requiresApproval |-> TRUE]
ReplyAct  == [type |-> "reply", arg |-> "", mode |-> "", requiresApproval |-> FALSE]

\* plans the planner may have produced for a turn
Plans == { <<>>, <<SshUptime, SshReboot>>, <<ReplyAct>> }

\* ------------------------------------------------------------------------
\* Proposal store (action-queue)
\* ------------------------------------------------------------------------
NoRecord == [id |-> 0, status |-> NULL, groupFolder |-> "", chatJid |-> "",
             actions |-> <<>>, decidedAt |-> 0, decisionReason |-> ""]

IndexOfId(q, id) ==
  IF \E i \in 1..Len(q) : q[i].id = id
    THEN CHOOSE i \in 1..Len(q) : q[i].id = id /\ \A j \in 1..(i-1) : q[j].id # id
    ELSE 0

\* getActionProposalById: the first entry with that id, or null
getActionProposalById(q, id) ==
  IF IndexOfId(q, id) = 0 THEN NoRecord ELSE q[IndexOfId(q, id)]

\* an enqueue without the test of line 31: a plan without actions is stored too
EnqueueAnyPlan(q, groupFolder, chatJid, actions) ==
  LET record == [id |-> createId(Len(q) + 1), status |-> "proposed",
                 groupFolder |-> groupFolder, chatJid |-> chatJid,
                 actions |-> actions, decidedAt |-> 0, decisionReason |-> ""]
  IN [queue |-> Append(q, record), record |-> record]

\* enqueueActionProposal: [queue, record]; record is NoRecord when the plan has
\* no actions (nothing is written)
enqueueActionProposal(q, groupFolder, chatJid, actions) ==
  IF Len(actions) = 0
    THEN [queue |-> q, record |-> NoRecord]
    ELSE LET record == [id |-> createId(Len(q) + 1), status |-> "proposed",
                        groupFolder |-> groupFolder, chatJid |-> chatJid,
                        actions |-> actions, decidedAt |-> 0, decisionReason |-> ""]
         IN [queue |-> Append(q, record), record |-> record]

\* a decide that skips the status test of line 88
DecideIgnoringStatus(q, id, decision, decisionReason, t) ==
  LET i == IndexOfId(q, id) IN
  IF i = 0
    THEN [queue |-> q, record |-> NoRecord]
    ELSE LET target == [q[i] EXCEPT !.status = decision, !.decidedAt = t,
                                    !.decisionReason =
                                       IF decisionReason # "" THEN decisionReason ELSE @]
         IN [queue |-> [q EXCEPT ![i] = target], record |-> target]

\* decideActionProposal: [queue, record]; record is NoRecord for the null return
decideActionProposal(q, id, decision, decisionReason, t) ==
  LET i == IndexOfId(q, id) IN
  IF i = 0 \/ (i # 0 /\ q[i].status # "proposed")
    THEN [queue |-> q, record |-> NoRecord]
    ELSE LET target == [q[i] EXCEPT !.status = decision, !.decidedAt = t,
                                    !.decisionReason =
                                       IF decisionReason # "" THEN decisionReason ELSE @]
         IN [queue |-> [q EXCEPT ![i] = target], record |-> target]

\* ------------------------------------------------------------------------
\* Dispatcher (core side): executeApprovedActions
\* ------------------------------------------------------------------------
\* configuration of the core process
ENABLE_APPROVED_EXECUTION == TRUE
WebhookConfigured == TRUE

\* String.prototype.trim on the sample commands of the model
TrimCommand(command) ==
  CASE command = " uptime " -> "uptime"
    [] command = "  " -> ""
    [] OTHER -> command

\* BLOCKED_META_CHARS.test on the sample commands
BLOCKED_META_CHARS(command) == command \in {"uptime; reboot", "uptime | sh"}

\* ALLOWED_READONLY_COMMANDS.some(pattern => pattern.test(...)) on the samples
ALLOWED_READONLY_COMMANDS(command) == command \in {"uptime", "df -h"}

isAllowedReadonlyCommand(command) ==
  LET trimmed == TrimCommand(command) IN
  IF trimmed = "" THEN FALSE
  ELSE IF BLOCKED_META_CHARS(trimmed) THEN FALSE
  ELSE ALLOWED_READONLY_COMMANDS(trimmed)

\* new URL(url) on the sample urls: protocol and hostname as the WHATWG parser
\* gives them (lower case, IPv4 in dotted decimal, an IPv6 literal inside its
\* brackets), or the TypeError of an unparsable url
ParsedUrl(protocol, host) == [valid |-> TRUE, protocol |-> protocol, host |-> host]

ParseUrl(url) ==
  CASE url = "https://example.com/" -> ParsedUrl("https:", "example.com")
    [] url = "https://example.com" -> ParsedUrl("https:", "example.com")
    [] url = "http://169.254.169.254/latest/meta-data" -> ParsedUrl("http:", "169.254.169.254")
    [] url = "http://localhost:8080/" -> ParsedUrl("http:", "localhost")
    [] url = "http://10.0.0.5/" -> ParsedUrl("http:", "10.0.0.5")
    [] url = "ftp://example.com/" -> ParsedUrl("ftp:", "example.com")
    [] url = "http://1.1.1.1/" -> ParsedUrl("http:", "1.1.1.1")
    [] url = "http://127.0.0.1/" -> ParsedUrl("http:", "127.0.0.1")
    [] url = "http://2130706433/" -> ParsedUrl("http:", "127.0.0.1")
    [] url = "http://0.0.0.0/" -> ParsedUrl("http:", "0.0.0.0")
    [] url = "http://169.254.10.1/" -> ParsedUrl("http:", "169.254.10.1")
    [] url = "http://172.16.0.1/" -> ParsedUrl("http:", "172.16.0.1")
    [] url = "http://172.32.0.1/" -> ParsedUrl("http:", "172.32.0.1")
    [] url = "http://192.168.1.10/status" -> ParsedUrl("http:", "192.168.1.10")
    [] url = "http://printer.local/" -> ParsedUrl("http:", "printer.local")
    [] url = "http://db.internal/" -> ParsedUrl("http:", "db.internal")
    [] url = "http://fcbarcelona.com/" -> ParsedUrl("http:", "fcbarcelona.com")
    [] url = "http://[::1]/" -> ParsedUrl("http:", "[::1]")
    [] url = "http://[FD00::1]/" -> ParsedUrl("http:", "[fd00::1]")
    [] url = "http://[fe80::1]/" -> ParsedUrl("http:", "[fe80::1]")
    [] url = "http://[2606:4700::1111]/" -> ParsedUrl("http:", "[2606:4700::1111]")
    [] OTHER -> [valid |-> FALSE, protocol |-> "", host |-> ""]

\* String.prototype.endsWith and startsWith on the sample hosts
EndsWith(host, suffix) ==
  \/ suffix = ".local" /\ host \in {"printer.local"}
  \/ suffix = ".internal" /\ host \in {"db.internal"}

StartsWith(host, prefix) ==
  \/ prefix = "fc" /\ host \in {"fcbarcelona.com"}
  \/ prefix = "fd" /\ host \in {}
  \/ prefix = "fe80:" /\ host \in {}

isPrivateHostname(host) ==
  host = "localhost" \/ EndsWith(host, ".local") \/ EndsWith(host, ".internal")

\* hostname.split('.').map(Number) of a host that is four decimal numbers:
\* the first two, <<>> for any other host
FirstOctets(host) ==
  CASE host = "10.0.0.5" -> <<10, 0>>
    [] host = "169.254.169.254" -> <<169, 254>>
    [] host = "1.1.1.1" -> <<1, 1>>
    [] host = "127.0.0.1" -> <<127, 0>>
    [] host = "0.0.0.0" -> <<0, 0>>
    [] host = "169.254.10.1" -> <<169, 254>>
    [] host = "172.16.0.1" -> <<172, 16>>
    [] host = "172.32.0.1" -> <<172, 32>>
    [] host = "192.168.1.10" -> <<192, 168>>
    [] OTHER -> <<>>

isPrivateIpv4(host) ==
  LET ab == FirstOctets(host) IN
  IF ab = <<>> THEN FALSE
  ELSE \/ ab[1] \in {10, 127, 0}
       \/ ab[1] = 169 /\ ab[2] = 254
       \/ ab[1] = 172 /\ ab[2] >= 16 /\ ab[2] <= 31
       \/ ab[1] = 192 /\ ab[2] = 168

isPrivateIpv6(host) ==
  \/ host = "::1"
  \/ StartsWith(host, "fc") \/ StartsWith(host, "fd")
  \/ StartsWith(host, "fe80:")

isAllowedWebUrl(url) ==
  LET parsed == ParseUrl(url) IN
  IF ~parsed.valid THEN FALSE
  ELSE IF parsed.protocol \notin {"http:", "https:"} THEN FALSE
  ELSE IF parsed.host = "" THEN FALSE
  ELSE IF parsed.host = "169.254.169.254" THEN FALSE
  ELSE IF isPrivateHostname(parsed.host) \/ isPrivateIpv4(parsed.host)
            \/ isPrivateIpv6(parsed.host) THEN FALSE
  ELSE TRUE

\* a filter loop that looks at the type of the action only
DispatchableByType(action) == action.type \in {"ssh", "web_fetch"}

IsDispatchable(action) ==
  /\ action.type \in {"ssh", "web_fetch"}
  /\ action.type = "ssh" => isAllowedReadonlyCommand(action.arg)
  /\ action.type = "web_fetch" =>
       /\ isAllowedWebUrl(action.arg)
       /\ ~(action.mode = "browser" /\ ~action.requiresApproval)

\* a dispatcher that sends nothing once one action of the proposal is refused
AllOrNothing(actions) ==
  IF \A i \in 1..Len(actions) : IsDispatchable(actions[i]) THEN actions ELSE <<>>

dispatchableActions(actions) == SelectSeq(actions, IsDispatchable)

\* whether executeApprovedActions reaches the POST of dispatchApprovedActions
SendsPost(actions) ==
  /\ ENABLE_APPROVED_EXECUTION
  /\ Len(dispatchableActions(actions)) > 0
  /\ WebhookConfigured

\* ------------------------------------------------------------------------
\* Approval gateway: handleApprovalCommand / handleApprovalCallback
\* ------------------------------------------------------------------------
\* reply chosen when decide returned null (lines 776-789, 809-822, 837-847, 863-873)
StaleReply(existing) ==
  IF existing.status = "approved" THEN "already approved"
  ELSE IF existing.status = "denied" THEN "already denied"
  ELSE "not found"

\* an approve handler that goes on to execute whatever decide returned
ApproveNoNullCheck(record, existing) ==
  [reply |-> "Approved", pc |-> "ack"]

\* handleApprovalCommand, /approve <id>: the reply and the continuation after decide
CommandApprove(record, existing) ==
  IF record.status = NULL
    THEN [reply |-> StaleReply(existing), pc |-> "reply"]
    ELSE [reply |-> "Approved", pc |-> "ack"]

\* handleApprovalCallback, approve:<id>
CallbackApprove(record, existing) ==
  IF record.status = NULL
    THEN [reply |-> StaleReply(existing), pc |-> "reply"]
    ELSE [reply |-> "Approved", pc |-> "ack"]

\* a deny handler whose stale reply always says "already denied"
DenyFixedReply(record, existing) ==
  IF record.status = NULL
    THEN [reply |-> "already denied", pc |-> "reply"]
    ELSE [reply |-> "Denied", pc |-> "reply"]

\* handleApprovalCommand, /deny <id> [reason]
CommandDeny(record, existing) ==
  IF record.status = NULL
    THEN [reply |-> StaleReply(existing), pc |-> "reply"]
    ELSE [reply |-> "Denied", pc |-> "reply"]

\* handleApprovalCallback, deny:<id>
CallbackDeny(record, existing) ==
  IF record.status = NULL
    THEN [reply |-> StaleReply(existing), pc |-> "reply"]
    ELSE [reply |-> "Denied", pc |-> "reply"]

\* a handler that has returned
Returned == [kind |-> "", chat |-> "", id |-> 0, decideOk |-> FALSE,
             reply |-> "", pc |-> "done"]

\* A new /approve, /deny, approve:<id> or deny:<id> arrives; the handler runs
\* to its first await: decide, the lookup after a null, the choice of the reply.
StartDecision(via, kind, chat, id, reason) ==
  /\ Len(handlers) < MaxRequests
  /\ via = "callback" => reason = ""
  /\ kind = "approved" => reason = ""
  /\ LET d == decideActionProposal(queue, id, kind, reason, now)
         existing == getActionProposalById(d.queue, id)
         path == CASE via = "command"  /\ kind = "approved" -> CommandApprove(d.record, existing)
                   [] via = "command"  /\ kind = "denied"   -> CommandDeny(d.record, existing)
                   [] via = "callback" /\ kind = "approved" -> CallbackApprove(d.record, existing)
                   [] via = "callback" /\ kind = "denied"   -> CallbackDeny(d.record, existing)
     IN /\ queue' = d.queue
        /\ handlers' = Append(handlers,
             [kind |-> kind, chat |-> chat, id |-> id,
              decideOk |-> d.record.status # NULL,
              reply |-> path.reply, pc |-> path.pc])
  /\ now' = now + 1
  /\ UNCHANGED <<execCalls, posts>>

ApprovalRequest ==
  \E via \in {"command", "callback"}, kind \in {"approved", "denied"},
     chat \in Chats, id \in TypedIds, reason \in {"", "not now"} :
    StartDecision(via, kind, chat, id, reason)

\* sendMessage of the single reply of a handler returns (errors are swallowed)
\* and the handler returns
ReplySent(h) ==
  /\ handlers[h].pc = "reply"
  /\ handlers' = [handlers EXCEPT ![h] = Returned]
  /\ UNCHANGED <<queue, now, execCalls, posts>>

\* sendMessage("Approved <id>.") returned; executeApprovedActions(record.actions)
\* runs to the POST, or to its end when nothing is posted
ExecuteApproved(h) ==
  /\ handlers[h].pc = "ack"
  /\ LET id == handlers[h].id
         acts == getActionProposalById(queue, id).actions IN
       /\ execCalls' = execCalls \cup {[handler |-> h, id |-> id, kind |-> handlers[h].kind,
                                          decideOk |-> handlers[h].decideOk]}
       /\ IF SendsPost(acts)
            THEN /\ posts' = posts \cup {[handler |-> h, id |-> id, actions |-> dispatchableActions(acts)]}
                 /\ handlers' = [handlers EXCEPT ![h].pc = "posting"]
            ELSE /\ posts' = posts
                 /\ handlers' = [handlers EXCEPT ![h].pc = "report"]
  /\ UNCHANGED <<queue, now>>

\* the POST of dispatchApprovedActions settles (response, error or timeout)
PostSettles(h) ==
  /\ handlers[h].pc = "posting"
  /\ handlers' = [handlers EXCEPT ![h].pc = "report"]
  /\ UNCHANGED <<queue, now, execCalls, posts>>

\* the execution results are sent to the chat and the handler returns
ReportSent(h) ==
  /\ handlers[h].pc = "report"
  /\ handlers' = [handlers EXCEPT ![h] = Returned]
  /\ UNCHANGED <<queue, now, execCalls, posts>>

\* a turn of the message loop enqueues the plan of a turn (processMessage, line 235)
ProposalEnqueued ==
  \E chat \in ProposalChats, plan \in Plans :
    /\ Len(queue) < MaxProposals
    /\ queue' = enqueueActionProposal(queue, "main", chat, plan).queue
    /\ UNCHANGED <<now, handlers, execCalls, posts>>

HandlerStep ==
  \E h \in 1..Len(handlers) :
    \/ ReplySent(h)
    \/ ExecuteApproved(h)
    \/ PostSettles(h)
    \/ ReportSent(h)

ApprovalInit ==
  /\ queue = <<>>
  /\ now = 1
  /\ handlers = <<>>
  /\ execCalls = {}
  /\ posts = {}

\* ------------------------------------------------------------------------
\* Ops runner: signature, dispatch, run registry
\* ------------------------------------------------------------------------
RunIds == 1..MaxRuns

\* OPS_RUNNER_SHARED_SECRET (required at start) and what a client may send
SHARED_SECRET == "shared"
ApiSecretHeaders == {"", "shared", "guess"}

\* HMAC-SHA256 as an ideal keyed hash of the signed text
Hmac(secret, text) == <<secret, text>>

\* buildSignature(timestamp, payload, secret) of the runner
buildSignature(timestamp, payload, secret) == Hmac(secret, timestamp \o "." \o payload)

\* the x-nanoclaw-signature header: absent, or a scheme prefix and a digest
NoHeader == [present |-> FALSE, prefix |-> "", hex |-> <<>>]
SigHeader(prefix, hex) == [present |-> TRUE, prefix |-> prefix, hex |-> hex]

\* a verification that compares only when both headers are there, and lets the
\* request through otherwise
VerifyOnlyWhenPresent(secret, ts, signature, body) ==
  IF secret = "" THEN TRUE
  ELSE IF ts = "" \/ ~signature.present THEN TRUE
  ELSE signature.prefix = "sha256=" /\ signature.hex = buildSignature(ts, body, secret)

\* verifyDispatchSignature(request, body) under WEBHOOK_SECRET = secret;
\* ts is "" when the header is missing
verifyDispatchSignature(secret, ts, signature, body) ==
  IF secret = "" THEN TRUE
  ELSE IF ts = "" \/ ~(signature.present /\ signature.prefix = "sha256=") THEN FALSE
  ELSE signature.hex = buildSignature(ts, body, secret)

\* verifyRunnerApiSecret
\* a check that accepts any secret that is sent
AnySecretSent(header) == header # ""

verifyRunnerApiSecret(header) == header # "" /\ header = SHARED_SECRET

\* actions as the runner reads them from a dispatch body
Ssh(tag, g)    == [type |-> "ssh", tag |-> tag, parallelGroup |-> g, executionMode |-> ""]
Web(tag, g)    == [type |-> "web_fetch", tag |-> tag, parallelGroup |-> g, executionMode |-> ""]
OcBg(tag, g)   == [type |-> "opencode_serve", tag |-> tag, parallelGroup |-> g, executionMode |-> "background"]
OcFg(tag, g)   == [type |-> "opencode_serve", tag |-> tag, parallelGroup |-> g, executionMode |-> "foreground"]
Note(tag, g)   == [type |-> "notify", tag |-> tag, parallelGroup |-> g, executionMode |-> ""]

\* raw request bodies and what JSON.parse makes of them
Bodies == {"mixed", "groups", "serial", "background", "wrongEvent", "notJson"}

ParseBody(body) ==
  CASE body = "mixed" ->
         [json |-> TRUE, event |-> "approved_actions.dispatch",
          actions |-> <<Ssh("a", ""), Web("b", "g1"), Web("c", "g1")>>]
    [] body = "groups" ->
         [json |-> TRUE, event |-> "approved_actions.dispatch",
          actions |-> <<Web("a", "g1"), Ssh("b", ""), Web("c", "g2"), OcFg("d", "g1")>>]
    [] body = "serial" ->
         [json |-> TRUE, event |-> "approved_actions.dispatch",
          actions |-> <<Ssh("a", ""), Web("b", "g1"), Ssh("c", "")>>]
    [] body = "background" ->
         [json |-> TRUE, event |-> "approved_actions.dispatch",
          actions |-> <<OcBg("a", ""), Note("b", "g1")>>]
    [] body = "wrongEvent" ->
         [json |-> TRUE, event |-> "ping", actions |-> <<Ssh("a", "")>>]
    [] OTHER -> [json |-> FALSE, event |-> "", actions |-> <<>>]

\* ---- run registry (db.ts) ----
NoRow == [status |-> "none", cancelRequested |-> FALSE, startedAt |-> FALSE,
          completedAt |-> FALSE, resultText |-> "", errorText |-> ""]

\* createRun: INSERT with status and the column defaults
createRun(table, id, status) ==
  [table EXCEPT ![id] = [NoRow EXCEPT !.status = status]]

\* updateRun(id, updates): only the fields given are written; "" and FALSE in
\* upd.status / upd.startedAt / upd.completedAt stand for fields not given,
\* upd.set names the optional text and flag fields that are given
updateRun(table, id, upd) ==
  IF table[id].status = "none" THEN table
  ELSE [table EXCEPT ![id] =
         [status |-> IF upd.status # "" THEN upd.status ELSE @.status,
          startedAt |-> IF upd.startedAt THEN TRUE ELSE @.startedAt,
          completedAt |-> IF upd.completedAt THEN TRUE ELSE @.completedAt,
          resultText |-> IF "resultText" \in upd.set THEN upd.resultText ELSE @.resultText,
          errorText |-> IF "errorText" \in upd.set THEN upd.errorText ELSE @.errorText,
          cancelRequested |-> IF "cancelRequested" \in upd.set THEN upd.cancelRequested
                              ELSE @.cancelRequested]]

NoUpdate == [status |-> "", startedAt |-> FALSE, completedAt |-> FALSE, resultText |-> "",
             errorText |-> "", cancelRequested |-> FALSE, set |-> {}]

CancelledUpdate == [NoUpdate EXCEPT !.status = "cancelled", !.completedAt = TRUE,
                      !.errorText = "Cancelled by operator request.", !.set = {"errorText"}]

Terminal == {"completed", "failed", "cancelled"}

\* ---- dispatch execution (executeDispatchActions) ----
NoResult == [tag |-> "", exitCode |-> -1, runId |-> 0]

IdleDispatch == [phase |-> "idle", actions |-> <<>>, results |-> <<>>, started |-> <<>>,
                 inflight |-> {}, si |-> 1, cursor |-> 0, batch |-> <<>>,
                 batchResults |-> <<>>, runOf |-> <<>>]

NoRequest == [kind |-> "none", ts |-> "", signature |-> NoHeader, body |-> "",
              run |-> 0, header |-> "", code |-> 0, prior |-> "", cancelled |-> FALSE,
              revealed |-> {}]

Indices(actions) == [i \in 1..Len(actions) |-> i]

\* a serial pass that takes the ungrouped actions last to first
ReverseSerial(actions) ==
  LET s == SelectSeq(Indices(actions), LAMBDA i : actions[i].parallelGroup = "")
  IN [k \in 1..Len(s) |-> s[Len(s) + 1 - k]]

\* serial = indexed.filter(({action}) => !action.parallelGroup)
SerialOrder(actions) ==
  SelectSeq(Indices(actions), LAMBDA i : actions[i].parallelGroup = "")

RECURSIVE Flat(_)
Flat(ss) == IF ss = <<>> THEN <<>> ELSE Head(ss) \o Flat(Tail(ss))

\* a grouped pass that takes the grouped actions last to first
ReverseGrouped(actions) ==
  LET s == SelectSeq(Indices(actions), LAMBDA i : actions[i].parallelGroup # "")
  IN [k \in 1..Len(s) |-> s[Len(s) + 1 - k]]

\* grouped = [...groupedMap.values()].flat(): the groups in the order of their
\* first member, each group in declaration order
GroupedOrder(actions) ==
  LET firsts == SelectSeq(Indices(actions), LAMBDA i :
                   /\ actions[i].parallelGroup # ""
                   /\ \A j \in 1..(i-1) : actions[j].parallelGroup # actions[i].parallelGroup)
      member(k) == SelectSeq(Indices(actions), LAMBDA i :
                   actions[i].parallelGroup = actions[firsts[k]].parallelGroup)
  IN Flat([k \in 1..Len(firsts) |-> member(k)])

Max(a, b) == IF a >= b THEN a ELSE b
Min(a, b) == IF a <= b THEN a ELSE b

\* parseInt on the texts modelled: the decimal numeral the text begins with
\* gives the value, a text that begins with none gives NaN
parseInt(text) ==
  CASE text = "-1" -> [nan |-> FALSE, n |-> -1]
    [] text = "0" -> [nan |-> FALSE, n |-> 0]
    [] text = "1" -> [nan |-> FALSE, n |-> 1]
    [] text = "2" -> [nan |-> FALSE, n |-> 2]
    [] text = "4" -> [nan |-> FALSE, n |-> 4]
    [] text = "20" -> [nan |-> FALSE, n |-> 20]
    [] text = "300000" -> [nan |-> FALSE, n |-> 300000]
    [] text = "5min" -> [nan |-> FALSE, n |-> 5]
    [] OTHER -> [nan |-> TRUE, n |-> 0]

\* DISPATCH_MAX_PARALLEL = parseInt(process.env.DISPATCH_MAX_PARALLEL || '4')
DISPATCH_MAX_PARALLEL(env) == parseInt(IF env = "" THEN "4" ELSE env)

\* a batch one action wider than the setting allows
BatchOneMore(parallel) == Max(1, parallel.n) + 1

\* Math.max(1, DISPATCH_MAX_PARALLEL), for a setting that is a number
BatchSize(parallel) == Max(1, parallel.n)

\* grouped.slice(cursor, cursor + Math.max(1, DISPATCH_MAX_PARALLEL)): an end
\* of NaN is taken as 0, so the slice is empty
BatchSlice(grouped, cursor, parallel) ==
  IF parallel.nan THEN <<>>
  ELSE SubSeq(grouped, cursor + 1, Min(Len(grouped), cursor + BatchSize(parallel)))

\* a batch writer that stores the k-th result of the batch at position cursor + k
IndexByPosition(batch, cursor, k) == cursor + k

\* results[item.index] = batchResults[idx]: where the k-th result of a batch goes
ResultIndex(batch, cursor, k) == batch[k]

IsBackground(action) ==
  action.type = "opencode_serve" /\ action.executionMode = "background"

OPENCODE_SERVE_URL_SET == TRUE

\* number of rows of the registry; the next row gets the next id
RowCount(table) == Cardinality({r \in RunIds : table[r].status # "none"})

\* run ids given to the background actions among the actions started together
\* (0 for the others), in the order in which they start
RECURSIVE AllocRuns(_, _, _)
AllocRuns(actions, idxs, next) ==
  IF idxs = <<>> THEN <<>>
  ELSE IF IsBackground(actions[Head(idxs)]) /\ OPENCODE_SERVE_URL_SET
         THEN <<next>> \o AllocRuns(actions, Tail(idxs), next + 1)
         ELSE <<0>> \o AllocRuns(actions, Tail(idxs), next)

SeqRange(q) == {q[i] : i \in 1..Len(q)}

\* a start that creates the rows and leaves the worker's first statement to a
\* later turn of the event loop
RowsQueuedAtStart(table, newRuns) ==
  [r \in RunIds |-> IF r \in newRuns THEN createRun(table, r, "queued")[r] ELSE table[r]]

\* the rows after the synchronous start of the workers: createRun(queued), then
\* the worker's first statement updateRun(running, startedAt)
RowsAfterStart(table, newRuns) ==
  [r \in RunIds |->
     IF r \in newRuns
       THEN updateRun(createRun(table, r, "queued"), r,
                      [NoUpdate EXCEPT !.status = "running", !.startedAt = TRUE])[r]
       ELSE table[r]]

\* the synchronous continuation of executeDispatchActions: start the next
\* ungrouped action, or the next batch of grouped ones, or return the results
StartNext(d, parallel, rowCount) ==
  LET serial == SerialOrder(d.actions)
      grouped == GroupedOrder(d.actions)
      batch == IF d.si <= Len(serial) THEN <<serial[d.si]>>
               ELSE BatchSlice(grouped, d.cursor, parallel)
      alloc == AllocRuns(d.actions, batch, rowCount + 1)
  IN IF batch = <<>>
       THEN [d EXCEPT !.phase = "done", !.batch = <<>>, !.batchResults = <<>>]
       ELSE [d EXCEPT !.phase = "run", !.batch = batch,
               !.started = @ \o batch,
               !.inflight = SeqRange(batch),
               !.batchResults = [k \in 1..Len(batch) |-> NoResult],
               !.runOf = [i \in 1..Len(d.actions) |->
                            IF \E k \in 1..Len(batch) : batch[k] = i /\ alloc[k] # 0
                              THEN alloc[CHOOSE k \in 1..Len(batch) : batch[k] = i]
                              ELSE @[i]]]

NewRunsOf(dOld, dNew) ==
  {dNew.runOf[i] : i \in 1..Len(dNew.runOf)} \ ({0} \cup {dOld.runOf[i] : i \in 1..Len(dOld.runOf)})

\* what executeDispatchAction returns for an action
ExecutionResult(action, ok, runId) ==
  IF action.type \notin {"ssh", "web_fetch", "image_to_text", "voice_to_text", "opencode_serve"}
    THEN [tag |-> action.tag, exitCode |-> 1, runId |-> 0]
  ELSE IF IsBackground(action)
    THEN [tag |-> action.tag, exitCode |-> IF runId # 0 THEN 0 ELSE 1, runId |-> runId]
  ELSE [tag |-> action.tag, exitCode |-> IF ok THEN 0 ELSE 1, runId |-> 0]

BackgroundCount(actions) == Cardinality({i \in 1..Len(actions) : IsBackground(actions[i])})

\* the state of the process after a synchronous segment of handleDispatch
\* that started new actions
CommitDispatch(dOld, dNew) ==
  /\ disp' = dNew
  /\ runs' = RowsAfterStart(runs, NewRunsOf(dOld, dNew))
  /\ controllers' = controllers \cup NewRunsOf(dOld, dNew)
  /\ worker' = [r \in RunIds |-> IF r \in NewRunsOf(dOld, dNew) THEN "awaiting" ELSE worker[r]]

\* POST /dispatch: handleDispatch up to its first await inside the execution
HandleDispatch(ts, signature, body) ==
  LET req == [NoRequest EXCEPT !.kind = "dispatch", !.ts = ts, !.signature = signature,
                               !.body = body]
      parsed == ParseBody(body)
  IN IF ~verifyDispatchSignature(webhookSecret, ts, signature, body)
       THEN /\ lastReq' = [req EXCEPT !.code = 401]
            /\ UNCHANGED <<runs, controllers, aborted, worker, disp, accepted>>
     ELSE IF ~parsed.json
       THEN /\ lastReq' = [req EXCEPT !.code = 500]
            /\ UNCHANGED <<runs, controllers, aborted, worker, disp, accepted>>
     ELSE IF parsed.event # "approved_actions.dispatch"
       THEN /\ lastReq' = [req EXCEPT !.code = 400]
            /\ UNCHANGED <<runs, controllers, aborted, worker, disp, accepted>>
     ELSE /\ disp.phase \in {"idle", "done"}
          /\ accepted < MaxDispatches
          /\ RowCount(runs) + BackgroundCount(parsed.actions) <= MaxRuns
          /\ LET d0 == [IdleDispatch EXCEPT !.actions = parsed.actions,
                          !.results = [i \in 1..Len(parsed.actions) |-> NoResult],
                          !.runOf = [i \in 1..Len(parsed.actions) |-> 0]]
             IN CommitDispatch(d0, StartNext(d0, maxParallel, RowCount(runs)))
          /\ accepted' = accepted + 1
          /\ lastReq' = [req EXCEPT !.code = 200]
          /\ UNCHANGED aborted

Timestamps == {"", "1700000000000"}

\* a signature computed over the body alone
SignBodyOnly(timestamp, payload, secret) == Hmac(secret, payload)

\* buildWebhookSignature(timestamp, payload, secret) of the core
buildWebhookSignature(timestamp, payload, secret) ==
  Hmac(secret, timestamp \o "." \o payload)

\* the x-nanoclaw-signature header postApprovedActionDispatch attaches to its
\* body under APPROVED_ACTION_WEBHOOK_SECRET = secret, sent at time timestamp
CoreSignature(timestamp, body, secret) ==
  IF secret = "" THEN NoHeader
  ELSE SigHeader("sha256=", buildWebhookSignature(timestamp, body, secret))

\* the signature headers a sender may attach to (ts, body)
Signatures(ts, body) ==
  { NoHeader,
    CoreSignature(ts, body, "k1"),
    SigHeader("sha256=", buildSignature(ts, body, "k1")),
    SigHeader("sha256=", buildSignature(ts, body, "k2")),
    SigHeader("sha256=", buildSignature("1600000000000", body, "k1")),
    SigHeader("sha256=", buildSignature(ts, "mixed", "k1")),
    SigHeader("", buildSignature(ts, body, "k1")) }

DispatchRequest ==
  \E ts \in Timestamps, body \in Bodies :
    \E signature \in Signatures(ts, body) :
      /\ HandleDispatch(ts, signature, body)
      /\ UNCHANGED <<webhookSecret, maxParallel>>

\* an action of the running dispatch returns its result; the execution goes on
ActionReturns(idx, ok) ==
  /\ disp.phase = "run"
  /\ idx \in disp.inflight
  /\ LET k == CHOOSE k \in 1..Len(disp.batch) : disp.batch[k] = idx
         res == ExecutionResult(disp.actions[idx], ok, disp.runOf[idx])
         d1 == [disp EXCEPT !.inflight = @ \ {idx}, !.batchResults[k] = res]
         isSerial == disp.si <= Len(SerialOrder(disp.actions))
         d2 == IF isSerial
                 THEN [d1 EXCEPT !.results[idx] = res, !.si = @ + 1]
                 ELSE [d1 EXCEPT
                        !.results = [i \in 1..Len(d1.results) |->
                           IF \E j \in 1..Len(d1.batch) : ResultIndex(d1.batch, d1.cursor, j) = i
                             THEN d1.batchResults[CHOOSE j \in 1..Len(d1.batch) :
                                                     ResultIndex(d1.batch, d1.cursor, j) = i]
                             ELSE d1.results[i]],
                        !.cursor = @ + BatchSize(maxParallel)]
     IN IF d1.inflight # {}
          THEN /\ disp' = d1
               /\ UNCHANGED <<runs, controllers, worker>>
          ELSE CommitDispatch(d2, StartNext(d2, maxParallel, RowCount(runs)))
  /\ UNCHANGED <<webhookSecret, maxParallel, aborted, accepted, lastReq>>

ActionStep ==
  \E idx \in 1..4, ok \in BOOLEAN :
    /\ idx <= Len(disp.actions)
    /\ (~ok) => (disp.actions[idx].type \in {"ssh", "web_fetch"}
                 \/ (disp.actions[idx].type = "opencode_serve" /\ ~IsBackground(disp.actions[idx])))
    /\ ActionReturns(idx, ok)

\* ---- background worker and the run API ----
\* a worker that writes the upstream outcome without looking at the abort signal
WorkerWriteIgnoringAbort(table, r, isAborted, ok) ==
  updateRun(table, r,
    IF ok THEN [NoUpdate EXCEPT !.status = "completed", !.completedAt = TRUE,
                  !.resultText = "output", !.set = {"resultText"}]
          ELSE [NoUpdate EXCEPT !.status = "failed", !.completedAt = TRUE,
                  !.errorText = "error", !.set = {"errorText"}])

\* the worker's write after executeJsonRunnerCall returned (lines 946-959)
WorkerWrite(table, r, isAborted, ok) ==
  IF isAborted
    THEN updateRun(table, r, CancelledUpdate)
    ELSE updateRun(table, r,
           IF ok THEN [NoUpdate EXCEPT !.status = "completed", !.completedAt = TRUE,
                         !.resultText = "output", !.set = {"resultText"}]
                 ELSE [NoUpdate EXCEPT !.status = "failed", !.completedAt = TRUE,
                         !.errorText = "error", !.set = {"errorText"}])

\* the upstream call of a background run returns (answer, error or abort) and
\* the worker finishes
WorkerResumes(r, ok) ==
  /\ worker[r] = "awaiting"
  /\ (r \in aborted) => ~ok
  /\ runs' = WorkerWrite(runs, r, r \in aborted, ok)
  /\ controllers' = controllers \ {r}
  /\ worker' = [worker EXCEPT ![r] = "done"]
  /\ UNCHANGED <<webhookSecret, maxParallel, aborted, disp, accepted, lastReq>>

\* a cancel handler that marks the row and leaves the rest to the worker
CancelMarkOnly(table, r, hasController) ==
  updateRun(table, r, [NoUpdate EXCEPT !.cancelRequested = TRUE, !.set = {"cancelRequested"}])

\* the rows after handleCancelRun found the row (lines 271-281)
CancelWrites(table, r, hasController) ==
  LET marked == updateRun(table, r, [NoUpdate EXCEPT !.cancelRequested = TRUE,
                                                     !.set = {"cancelRequested"}])
  IN IF hasController THEN updateRun(marked, r, CancelledUpdate) ELSE marked

\* POST /runs/{id}/cancel
HandleCancelRun(r, header) ==
  LET req == [NoRequest EXCEPT !.kind = "cancel", !.run = r, !.header = header,
                               !.prior = runs[r].status]
  IN IF ~verifyRunnerApiSecret(header)
       THEN /\ lastReq' = [req EXCEPT !.code = 401]
            /\ UNCHANGED <<runs, controllers, aborted>>
     ELSE IF runs[r].status = "none"
       THEN /\ lastReq' = [req EXCEPT !.code = 404]
            /\ UNCHANGED <<runs, controllers, aborted>>
     ELSE /\ runs' = CancelWrites(runs, r, r \in controllers)
          /\ aborted' = IF r \in controllers THEN aborted \cup {r} ELSE aborted
          /\ controllers' = controllers \ {r}
          /\ lastReq' = [req EXCEPT !.code = 200, !.cancelled = (r \in controllers)]

CancelRequest ==
  \E r \in RunIds, header \in ApiSecretHeaders :
    /\ HandleCancelRun(r, header)
    /\ UNCHANGED <<webhookSecret, maxParallel, worker, disp, accepted>>

\* GET /runs/{id}
HandleGetRun(r, header) ==
  LET req == [NoRequest EXCEPT !.kind = "get", !.run = r, !.header = header]
  IN /\ lastReq' = IF ~verifyRunnerApiSecret(header) THEN [req EXCEPT !.code = 401]
                   ELSE IF runs[r].status = "none" THEN [req EXCEPT !.code = 404]
                   ELSE [req EXCEPT !.code = 200, !.prior = runs[r].status,
                                    !.cancelled = runs[r].cancelRequested,
                                    !.revealed = {r}]
     /\ UNCHANGED <<runs, controllers, aborted>>

GetRequest ==
  \E r \in RunIds, header \in ApiSecretHeaders :
    /\ HandleGetRun(r, header)
    /\ UNCHANGED <<webhookSecret, maxParallel, worker, disp, accepted>>

\* the limit of handleListRuns (lines 248-251) for the query parameter sent
ListLimit(param) ==
  LET read == parseInt(IF param = "" THEN "20" ELSE param)
      given == IF read.nan \/ read.n = 0 THEN 20 ELSE read.n
  IN Max(1, Min(100, given))

\* db.listRuns(limit): the newest rows; ids are given in the order of creation
listRuns(table, limit) ==
  {r \in RunIds : table[r].status # "none" /\ r > RowCount(table) - limit}

\* GET /runs
HandleListRuns(param, header) ==
  LET req == [NoRequest EXCEPT !.kind = "list", !.header = header]
  IN /\ lastReq' = IF ~verifyRunnerApiSecret(header) THEN [req EXCEPT !.code = 401]
                   ELSE [req EXCEPT !.code = 200,
                                    !.revealed = listRuns(runs, ListLimit(param))]
     /\ UNCHANGED <<runs, controllers, aborted>>

ListRequest ==
  \E param \in {"", "1", "abc"}, header \in ApiSecretHeaders :
    /\ HandleListRuns(param, header)
    /\ UNCHANGED <<webhookSecret, maxParallel, worker, disp, accepted>>

\* the runner process stops (SIGINT/SIGTERM or a crash) and starts again on the
\* same jobs.db: the rows stay, everything held in memory is gone
RunnerRestart ==
  /\ controllers # {} \/ disp.phase # "idle" \/ \E r \in RunIds : worker[r] # "none"
  /\ controllers' = {}
  /\ aborted' = {}
  /\ worker' = [r \in RunIds |-> "none"]
  /\ disp' = IdleDispatch
  /\ lastReq' = NoRequest
  /\ UNCHANGED <<webhookSecret, maxParallel, runs, accepted>>

\* the runner process has started with this configuration and an empty database
RunnerStarted(secret, parallelEnv) ==
  /\ webhookSecret = secret
  /\ maxParallel = DISPATCH_MAX_PARALLEL(parallelEnv)
  /\ runs = [r \in RunIds |-> NoRow]
  /\ controllers = {}
  /\ aborted = {}
  /\ worker = [r \in RunIds |-> "none"]
  /\ disp = IdleDispatch
  /\ accepted = 0
  /\ lastReq = NoRequest

\* ------------------------------------------------------------------------
\* Message loop of the core: fetch, processMessage, watermarks
\* ------------------------------------------------------------------------
MAIN_GROUP_FOLDER == "main"

\* registered_groups.json: chat id -> group folder
registeredGroups == [c \in Chats |-> IF c = "c1" THEN MAIN_GROUP_FOLDER ELSE "team"]

\* texts a user sends, and the replies the planner gives
Contents == {"hello", "@Andy see example.com", " "}
Replies == {"", "done", "I can't browse", "{\"actions\":[]}"}

Trim(text) == IF text = " " THEN "" ELSE text

\* TRIGGER_PATTERN: ^@<assistant>\b, case-insensitive
TRIGGER_PATTERN(content) == content \in {"@Andy see example.com"}

\* extractUrlCandidate: an http(s) URL, else a bare domain prefixed with https://
extractUrlCandidate(text) ==
  IF text = "@Andy see example.com" THEN "https://example.com" ELSE NULL

\* buildFallbackWebFetchAction: a web_fetch of the URL named in the user's text
NoAction == [type |-> NULL, arg |-> "", mode |-> "", requiresApproval |-> FALSE]

buildFallbackWebFetchAction(userText) ==
  IF extractUrlCandidate(userText) = NULL
    THEN NoAction
    ELSE [type |-> "web_fetch", arg |-> extractUrlCandidate(userText), mode |-> "http",
          requiresApproval |-> TRUE]

\* stripPlainPlanJson: a reply that is only a plan object is dropped
stripPlainPlanJson(text) ==
  IF Trim(text) = "{\"actions\":[]}" THEN "" ELSE Trim(text)

isKnownFallback(assistantText) ==
  assistantText = "I could not generate a complete answer. Please retry."
isWebRefusal(assistantText) == assistantText \in {"I can't browse"}
hasWebFetch(actions) == \E i \in 1..Len(actions) : actions[i].type = "web_fetch"

\* storeMessage: the row of a message; its id is telegram-<chat>-<ms>
MessageRow(chat, timestamp, content) ==
  [chat |-> chat, timestamp |-> timestamp, content |-> content]
MessageKey(msg) == <<msg.chat, msg.timestamp>>

\* getNewMessages: rows of the given chats strictly after the watermark, by timestamp
getNewMessages(rows, chatIds, since) ==
  SelectSeq(rows, LAMBDA m : m.chat \in chatIds /\ m.timestamp > since)

\* getMessagesSince: rows of one chat strictly after its agent watermark
getMessagesSince(rows, chat, since) ==
  SelectSeq(rows, LAMBDA m : m.chat = chat /\ m.timestamp > since)

\* buildUserPrompt is empty exactly when every message trims to nothing
PromptIsEmpty(missed) == \A i \in 1..Len(missed) : Trim(missed[i].content) = ""

\* the record of planner prompts: the messages that were in one prompt, the
\* messages that were in a further one, and whether a step has failed (the
\* planner gave no response, a send failed, or the process was restarted);
\* the record is kept up to the first failed step
NoPrompts == [once |-> {}, again |-> {}, failed |-> FALSE]

\* runAgent(group, prompt, ...) is called with the prompt built from missed
PromptSent(p, missed) ==
  LET keys == {MessageKey(missed[i]) : i \in 1..Len(missed)} IN
  IF p.failed THEN p
  ELSE [p EXCEPT !.once = @ \cup keys, !.again = @ \cup (keys \cap p.once)]

StepFailed(p) == [NoPrompts EXCEPT !.failed = TRUE]

Sleeping == [pc |-> "sleeping", batch |-> <<>>, i |-> 0, text |-> "", hasProposal |-> FALSE,
             web |-> FALSE, before |-> 0]
NoProc == [chat |-> "", timestamp |-> 0, outcome |-> "none", before |-> 0, after |-> 0]

CurrentMsg == loop.batch[loop.i]

\* the telegram message handler stores a message of a registered chat
MessageArrives ==
  \E chat \in DOMAIN registeredGroups, content \in Contents :
    /\ Len(messages) < MaxMessages
    /\ \A i \in 1..Len(messages) : MessageKey(messages[i]) # <<chat, clock>>
    /\ messages' = Append(messages, MessageRow(chat, clock, content))
    /\ UNCHANGED <<clock, lastTimestamp, lastAgentTimestamp, savedState, loop, lastProc,
                   raised, unsent, prompted, queue>>

ClockTicks ==
  /\ clock < MaxTime
  /\ clock' = clock + 1
  /\ UNCHANGED <<messages, lastTimestamp, lastAgentTimestamp, savedState, loop, lastProc,
                 raised, unsent, prompted, queue>>

\* startMessageLoop 1733-1734: an iteration that finds new messages
LoopFetch ==
  /\ loop.pc = "sleeping"
  /\ LET batch == getNewMessages(messages, DOMAIN registeredGroups, lastTimestamp) IN
       /\ batch # <<>>
       /\ loop' = [Sleeping EXCEPT !.pc = "next", !.batch = batch, !.i = 1]
  /\ UNCHANGED <<messages, clock, lastTimestamp, lastAgentTimestamp, savedState, lastProc,
                 raised, unsent, prompted, queue>>

\* startMessageLoop 1739-1743: processMessage returned; the global watermark
\* advances and the state file is written, then the batch continues
ProcessReturned(outcome, agentTs) ==
  /\ lastAgentTimestamp' = agentTs
  /\ lastTimestamp' = CurrentMsg.timestamp
  /\ savedState' = [last_timestamp |-> CurrentMsg.timestamp, last_agent_timestamp |-> agentTs]
  /\ lastProc' = [chat |-> CurrentMsg.chat, timestamp |-> CurrentMsg.timestamp,
                  outcome |-> outcome, before |-> loop.before,
                  after |-> agentTs[CurrentMsg.chat]]
  /\ raised' = raised \ {MessageKey(CurrentMsg)}
  /\ loop' = IF loop.i < Len(loop.batch)
               THEN [Sleeping EXCEPT !.pc = "next", !.batch = loop.batch, !.i = loop.i + 1]
               ELSE Sleeping

\* startMessageLoop 1744-1751: processMessage raised; the batch stops
ProcessRaised ==
  /\ lastProc' = [chat |-> CurrentMsg.chat, timestamp |-> CurrentMsg.timestamp,
                  outcome |-> "raised", before |-> loop.before,
                  after |-> lastAgentTimestamp'[CurrentMsg.chat]]
  /\ raised' = raised \cup {MessageKey(CurrentMsg)}
  /\ loop' = Sleeping
  /\ UNCHANGED <<lastTimestamp, savedState>>

\* processMessage 259-276: is a text sent to the chat after the watermark moved
SendsReply(assistantText, hasProposal, web) ==
  IF assistantText # ""
    THEN ~(hasProposal /\ (isKnownFallback(assistantText) \/ isWebRefusal(assistantText) \/ web))
    ELSE ~hasProposal

\* the agent watermark set before the approval prompt is awaited
WatermarkBeforePrompt(agentTs, chat, timestamp, sent) ==
  [agentTs EXCEPT ![chat] = timestamp]

\* processMessage 250-259: sendApprovalButtons throws before line 259 is reached
AfterApprovalPrompt(agentTs, chat, timestamp, sent) ==
  IF sent THEN [agentTs EXCEPT ![chat] = timestamp] ELSE agentTs

\* how processMessage 182-213 ends for a message: ignored, empty prompt, or
\* the planner is called
StartOutcome(msg, agentTs, rows) ==
  IF msg.chat \notin DOMAIN registeredGroups THEN "ignored"
  ELSE IF registeredGroups[msg.chat] # MAIN_GROUP_FOLDER /\ ~TRIGGER_PATTERN(Trim(msg.content))
    THEN "ignored"
  ELSE IF PromptIsEmpty(getMessagesSince(rows, msg.chat, agentTs[msg.chat])) THEN "empty"
  ELSE "planning"

ProcessStart ==
  /\ loop.pc = "next"
  /\ LET outcome == StartOutcome(CurrentMsg, lastAgentTimestamp, messages)
         before == lastAgentTimestamp[CurrentMsg.chat]
     IN IF outcome = "planning"
          THEN /\ loop' = [loop EXCEPT !.pc = "planning", !.before = before]
               /\ prompted' = PromptSent(prompted,
                                         getMessagesSince(messages, CurrentMsg.chat, before))
               /\ UNCHANGED <<lastTimestamp, lastAgentTimestamp, savedState, lastProc, raised>>
          ELSE /\ prompted' = prompted
               /\ lastAgentTimestamp' = lastAgentTimestamp
               /\ lastTimestamp' = CurrentMsg.timestamp
               /\ savedState' = [last_timestamp |-> CurrentMsg.timestamp,
                                 last_agent_timestamp |-> lastAgentTimestamp]
               /\ lastProc' = [chat |-> CurrentMsg.chat, timestamp |-> CurrentMsg.timestamp,
                               outcome |-> outcome, before |-> before, after |-> before]
               /\ raised' = raised \ {MessageKey(CurrentMsg)}
               /\ loop' = IF loop.i < Len(loop.batch)
                            THEN [Sleeping EXCEPT !.pc = "next", !.batch = loop.batch,
                                                  !.i = loop.i + 1]
                            ELSE Sleeping
  /\ UNCHANGED <<messages, clock, unsent, queue>>

\* what runAgent resolves to: null, or a reply with a plan
NoResponse == [reply |-> NULL, actions |-> <<>>]
Responses == {NoResponse} \cup {[reply |-> r, actions |-> a] : r \in Replies,
                                                              a \in {<<>>, <<SshUptime, SshReboot>>}}

\* processMessage 215-259: runAgent resolved; fallback web_fetch, enqueue, and
\* either the approval prompt is awaited or the watermark moves and a reply is due
PlannerReturns ==
  \E response \in Responses :
    /\ loop.pc = "planning"
    /\ IF response = NoResponse
         THEN /\ ProcessReturned("noResponse", lastAgentTimestamp)
              /\ prompted' = StepFailed(prompted)
              /\ UNCHANGED <<messages, clock, unsent, queue>>
         ELSE LET msg == CurrentMsg
                  fallbackWebFetch == buildFallbackWebFetchAction(Trim(msg.content))
                  actions == IF fallbackWebFetch # NoAction /\ ~hasWebFetch(response.actions)
                               THEN Append(response.actions, fallbackWebFetch)
                               ELSE response.actions
                  enq == enqueueActionProposal(queue, registeredGroups[msg.chat], msg.chat, actions)
                  assistantText == stripPlainPlanJson(response.reply)
              IN /\ actions = <<>> \/ Len(queue) < MaxProposals
                 /\ queue' = enq.queue
                 /\ IF enq.record # NoRecord
                      THEN /\ loop' = [loop EXCEPT !.pc = "prompting", !.text = assistantText,
                                                   !.hasProposal = TRUE,
                                                   !.web = hasWebFetch(actions)]
                           /\ UNCHANGED lastAgentTimestamp
                      ELSE /\ loop' = [loop EXCEPT !.pc = "replying", !.text = assistantText]
                           /\ lastAgentTimestamp' =
                                [lastAgentTimestamp EXCEPT ![msg.chat] = msg.timestamp]
                 /\ UNCHANGED <<messages, clock, lastTimestamp, savedState, lastProc,
                                raised, unsent, prompted>>

\* processMessage 250-276: sendApprovalButtons settles; it throws when the
\* transport is down
PromptSettles ==
  \E sent \in BOOLEAN :
    /\ loop.pc = "prompting"
    /\ LET msg == CurrentMsg
           agentTs == AfterApprovalPrompt(lastAgentTimestamp, msg.chat, msg.timestamp, sent)
       IN IF ~sent
            THEN /\ lastAgentTimestamp' = agentTs
                 /\ ProcessRaised
                 /\ unsent' = unsent \cup {MessageKey(msg)}
            ELSE /\ unsent' = unsent \ {MessageKey(msg)}
                 /\ IF SendsReply(loop.text, loop.hasProposal, loop.web)
                      THEN /\ lastAgentTimestamp' = agentTs
                           /\ loop' = [loop EXCEPT !.pc = "replying"]
                           /\ UNCHANGED <<lastTimestamp, savedState, lastProc, raised>>
                      ELSE ProcessReturned("responded", agentTs)
    /\ prompted' = IF sent THEN prompted ELSE StepFailed(prompted)
    /\ UNCHANGED <<messages, clock, queue>>

\* sendMessage 1280-1287: the reply is delivered, or the failure is logged;
\* processMessage returns either way
ReplySettles ==
  \E sent \in BOOLEAN :
    /\ loop.pc = "replying"
    /\ ProcessReturned("responded", lastAgentTimestamp)
    /\ unsent' = IF sent THEN unsent \ {MessageKey(CurrentMsg)}
                         ELSE unsent \cup {MessageKey(CurrentMsg)}
    /\ prompted' = IF sent THEN prompted ELSE StepFailed(prompted)
    /\ UNCHANGED <<messages, clock, queue>>

\* main 1799-1803: the core process starts again and loads router_state.json
CoreRestart ==
  /\ loop' = Sleeping
  /\ lastTimestamp' = savedState.last_timestamp
  /\ lastAgentTimestamp' = savedState.last_agent_timestamp
  /\ prompted' = StepFailed(prompted)
  /\ UNCHANGED <<messages, clock, savedState, lastProc, raised, unsent, queue>>

LoopInit ==
  /\ messages = <<>>
  /\ clock = 1
  /\ lastTimestamp = 0
  /\ lastAgentTimestamp = [c \in Chats |-> 0]
  /\ savedState = [last_timestamp |-> 0, last_agent_timestamp |-> [c \in Chats |-> 0]]
  /\ loop = Sleeping
  /\ lastProc = NoProc
  /\ raised = {}
  /\ unsent = {}
  /\ prompted = NoPrompts

\* ------------------------------------------------------------------------
\* Dispatcher (core side) in full: executeApprovedActions and
\* dispatchApprovedActions under every configuration and every runner answer
\* ------------------------------------------------------------------------
MaxPlanLen == 2

SshPadded     == [type |-> "ssh", arg |-> " uptime ", mode |-> "", requiresApproval |-> TRUE]
SshMeta       == [type |-> "ssh", arg |-> "uptime; reboot", mode |-> "", requiresApproval |-> TRUE]
WebOk         == [type |-> "web_fetch", arg |-> "https://example.com/", mode |-> "http",
                  requiresApproval |-> FALSE]
WebMetadata   == [type |-> "web_fetch", arg |-> "http://169.254.169.254/latest/meta-data",
                  mode |-> "http", requiresApproval |-> TRUE]
WebBrowser    == [type |-> "web_fetch", arg |-> "https://example.com/", mode |-> "browser",
                  requiresApproval |-> TRUE]
WebBrowserUnapproved ==
  [type |-> "web_fetch", arg |-> "https://example.com/", mode |-> "browser",
   requiresApproval |-> FALSE]
OpencodeBackground ==
  [type |-> "opencode_serve", arg |-> "refactor", mode |-> "background",
   requiresApproval |-> TRUE]

\* the actions an approved proposal is made of
ApprovedActions ==
  {SshUptime, SshPadded, SshReboot, SshMeta, WebOk, WebMetadata, WebBrowser,
   WebBrowserUnapproved, ReplyAct, OpencodeBackground}

ApprovedPlans == UNION {[1..n -> ApprovedActions] : n \in 1..MaxPlanLen}

\* ENABLE_APPROVED_EXECUTION, ENABLE_LOCAL_APPROVED_EXECUTION and whether
\* APPROVED_ACTION_WEBHOOK_URL is set, as read from the environment at start
ExecConfigs == [enabled : BOOLEAN, local : BOOLEAN, url : BOOLEAN]

\* one ExecutionResult; command is "" where the code leaves it undefined
CoreResult(actionType, command, status, output) ==
  [actionType |-> actionType, command |-> command, status |-> status,
   output |-> output]

\* lines 198-211: the answer for every action when the local flag is set
LocalRefusal(actions) ==
  [i \in 1..Len(actions) |->
     CoreResult(actions[i].type,
                IF actions[i].type \in {"ssh", "web_fetch"} THEN actions[i].arg ELSE "",
                "blocked", "Local execution is disabled in core app")]

\* the result pushed inside the loop of lines 216-258 for an action that is
\* not pushed to dispatchableActions
FilterResult(action) ==
  IF action.type \notin {"ssh", "web_fetch"}
    THEN CoreResult(action.type, "", "skipped", "not executable by external runner")
  ELSE IF action.type = "ssh"
    THEN CoreResult("ssh", action.arg, "blocked",
                    "Command blocked by readonly allowlist policy.")
  ELSE IF ~isAllowedWebUrl(action.arg)
    THEN CoreResult("web_fetch", "", "blocked",
                    "URL blocked by web-fetch safety policy.")
  ELSE CoreResult("web_fetch", "", "blocked", "Browser mode requires approval.")

NotDispatchable(action) == ~IsDispatchable(action)

\* results after the loop of lines 216-258
FilterResults(actions) ==
  LET kept == SelectSeq(actions, NotDispatchable)
  IN [k \in 1..Len(kept) |-> FilterResult(kept[k])]

\* lines 261-269 and 277-288: the dispatchable actions reported as skipped
SkippedResults(dispatchable, output) ==
  [k \in 1..Len(dispatchable) |->
     CoreResult(dispatchable[k].type, dispatchable[k].arg, "skipped", output)]

\* a dispatcher without the master switch
NeverDisabled(cfg) == FALSE

\* line 260: if (!ENABLE_APPROVED_EXECUTION)
ExecutionDisabled(cfg) == ~cfg.enabled

\* no fetch was made, or the fetch has not settled
NoOutcome == [kind |-> "none", status |-> 0, parsed |-> FALSE, results |-> <<>>]

IdleExec == [pc |-> "idle", actions |-> <<>>, results |-> <<>>,
             dispatchable |-> <<>>, posted |-> FALSE, outcome |-> NoOutcome]

\* executeApprovedActions up to its return or up to the await of line 291
StartExecution(actions, cfg) ==
  LET dispatchable == dispatchableActions(actions)
      first == FilterResults(actions)
      returned(results) ==
        [pc |-> "returned", actions |-> actions, results |-> results,
         dispatchable |-> <<>>, posted |-> FALSE, outcome |-> NoOutcome]
  IN
  IF cfg.local THEN returned(LocalRefusal(actions))
  ELSE IF ExecutionDisabled(cfg)
    THEN returned(first \o SkippedResults(dispatchable, "Approved execution is disabled"))
  ELSE IF Len(dispatchable) = 0 THEN returned(first)
  ELSE IF ~cfg.url
    THEN returned(first \o SkippedResults(dispatchable,
                                          "No APPROVED_ACTION_WEBHOOK_URL configured"))
  ELSE [pc |-> "posting", actions |-> actions, results |-> first,
        dispatchable |-> dispatchable, posted |-> TRUE, outcome |-> NoOutcome]

\* one entry of the results array of the runner's answer; exitCode may be absent
RunnerEntries == {[hasExitCode |-> TRUE, exitCode |-> 0],
                  [hasExitCode |-> TRUE, exitCode |-> 1],
                  [hasExitCode |-> FALSE, exitCode |-> 0]}

\* what the fetch of line 151 can come to: a rejection (network error or
\* AbortSignal.timeout), or a response with a status and a body
PostOutcomes(n) ==
  {[kind |-> k, status |-> 0, parsed |-> FALSE, results |-> <<>>] :
     k \in {"network error", "timeout"}}
  \cup {[kind |-> "response", status |-> s, parsed |-> FALSE, results |-> <<>>] :
          s \in {200, 401, 500}}
  \cup {[kind |-> "response", status |-> s, parsed |-> TRUE, results |-> r] :
          s \in {200, 500}, r \in [1..n -> RunnerEntries]}

\* response.ok
ResponseOk(status) == status >= 200 /\ status <= 299

\* the test of line 174 with every exit code counted as success
NoFailureSeen(results) == FALSE

\* line 174: parsed.results.some(r => (r.exitCode ?? 0) !== 0)
hasActionFailures(results) ==
  \E i \in 1..Len(results) :
    (IF results[i].hasExitCode THEN results[i].exitCode ELSE 0) # 0

\* dispatchApprovedActions after the fetch settled: [ok, output, actionResults]
dispatchApprovedActions(outcome) ==
  IF outcome.kind # "response"
    THEN [ok |-> FALSE, output |-> outcome.kind, actionResults |-> <<>>]
  ELSE IF ~ResponseOk(outcome.status)
    THEN [ok |-> FALSE, output |-> "Webhook dispatch failed", actionResults |-> <<>>]
  ELSE IF outcome.parsed /\ hasActionFailures(outcome.results)
    THEN [ok |-> FALSE, output |-> "Runner executed with one or more action failures",
          actionResults |-> outcome.results]
  ELSE [ok |-> TRUE, output |-> "Dispatched",
        actionResults |-> IF outcome.parsed THEN outcome.results ELSE <<>>]

\* lines 295-303: the output of the i-th dispatched action
RunnerOut(dispatch, i) ==
  IF i <= Len(dispatch.actionResults) /\ dispatch.actionResults[i].hasExitCode
    THEN IF dispatch.actionResults[i].exitCode = 0 THEN "exitCode=0" ELSE "exitCode=1"
    ELSE dispatch.output

\* lines 291-315: executeApprovedActions after the await
FinishExecution(e, outcome) ==
  LET dispatch == dispatchApprovedActions(outcome)
      status == IF dispatch.ok THEN "executed" ELSE "failed"
  IN [e EXCEPT
        !.pc = "returned",
        !.outcome = outcome,
        !.results = @ \o [i \in 1..Len(e.dispatchable) |->
                            CoreResult(e.dispatchable[i].type, e.dispatchable[i].arg,
                                       status, RunnerOut(dispatch, i))]]

\* an approved proposal's actions are handed to executeApprovedActions; the
\* function keeps nothing from one call to the next, so a behaviour follows
\* one call
ExecutorCalled ==
  /\ exec.pc = "idle"
  /\ \E actions \in ApprovedPlans :
       LET e == StartExecution(actions, execConfig) IN
       /\ exec' = e
       /\ sentActions' = IF e.posted
                           THEN sentActions \cup {e.dispatchable[i] : i \in 1..Len(e.dispatchable)}
                           ELSE sentActions
  /\ UNCHANGED execConfig

\* the POST settles and executeApprovedActions returns
ExecutorPostSettles ==
  /\ exec.pc = "posting"
  /\ \E outcome \in PostOutcomes(Len(exec.dispatchable)) :
       exec' = FinishExecution(exec, outcome)
  /\ UNCHANGED <<execConfig, sentActions>>

\* a core process that has not approved anything
ExecutorStarted(cfg) ==
  /\ execConfig = cfg
  /\ exec = IdleExec
  /\ sentActions = {}

\* the configuration the approval gateway above is modelled under
EnabledExecConfig ==
  [enabled |-> ENABLE_APPROVED_EXECUTION, local |-> FALSE, url |-> WebhookConfigured]

\* ------------------------------------------------------------------------
\* IPC watcher (core side): startIpcWatcher and processTaskIpc
\* ------------------------------------------------------------------------
MaxIpcFiles == 2
MaxTasks == 3

TaskIds == 1..MaxTasks

\* chats known to the transport; c3 is not registered at the start
IpcChatOrder == <<"c1", "c2", "c3">>
IpcChats == {IpcChatOrder[i] : i \in 1..Len(IpcChatOrder)}

\* directories found under data/ipc: the main folder, a registered group's
\* folder, and a folder no group is registered with
IpcSources == {MAIN_GROUP_FOLDER, "team", "ghost"}

\* the parsed content of an IPC file; "" stands for a field that is absent.
\* json is "invalid" for text JSON.parse rejects and "null" for the text null
NoData == [json |-> "object", type |-> "", chatJid |-> "", text |-> "", taskId |-> 0,
           task_id |-> 0,
           prompt |-> "", schedule_type |-> "", schedule_value |-> "",
           groupFolder |-> "", jid |-> "", folder |-> ""]

MessageData(chatJid, text) ==
  [NoData EXCEPT !.type = "message", !.chatJid = chatJid, !.text = text]

ScheduleData(groupFolder, scheduleType, scheduleValue) ==
  [NoData EXCEPT !.type = "schedule_task", !.prompt = "check disk",
                 !.schedule_type = scheduleType, !.schedule_value = scheduleValue,
                 !.groupFolder = groupFolder]

TaskData(type, taskId) == [NoData EXCEPT !.type = type, !.taskId = taskId]

RegisterData(jid, folder) ==
  [NoData EXCEPT !.type = "register_group", !.jid = jid, !.folder = folder]

\* schedules a request may carry: <<schedule_type, schedule_value>>
Schedules ==
  {<<"cron", "0 9 * * *">>, <<"cron", "every day">>,
   <<"interval", "300000">>, <<"interval", "0">>, <<"interval", "5min">>,
   <<"once", "2026-02-01T15:30:00.000Z">>, <<"once", "tomorrow">>,
   <<"weekly", "monday">>}

MessageFiles ==
  {MessageData(c, "hi") : c \in {"c1", "c2"}}
  \cup {MessageData("c2", ""), [NoData EXCEPT !.json = "invalid"],
        [NoData EXCEPT !.json = "null"]}

TaskFiles ==
  {ScheduleData("team", s[1], s[2]) : s \in Schedules}
  \cup {ScheduleData(MAIN_GROUP_FOLDER, "cron", "0 9 * * *"),
        ScheduleData("team", "", "")}
  \cup {TaskData(t, id) : t \in {"pause_task", "resume_task", "cancel_task"}, id \in {1, 2}}
  \cup {TaskData("refresh_groups", 0), TaskData("list_secrets", 0),
        RegisterData("c3", "ghost"), RegisterData("c3", ""),
        [NoData EXCEPT !.json = "invalid"], [NoData EXCEPT !.json = "null"]}

\* a file data/ipc/<source>/<dir>/<name>.json; the name stands for the content
IpcFiles ==
  {[source |-> s, dir |-> "messages", data |-> d] : s \in IpcSources, d \in MessageFiles}
  \cup {[source |-> s, dir |-> "tasks", data |-> d] : s \in IpcSources, d \in TaskFiles}

\* ---- scheduled tasks (db.ts of the core) ----
NoTask == [group_folder |-> "", chat_jid |-> "", schedule_type |-> "",
           schedule_value |-> "", status |-> "none"]

\* getTaskById: the row, or undefined for an id that has no row
getTask(table, id) == IF id \in TaskIds /\ table[id].status \notin {"none", "deleted"}
                        THEN table[id] ELSE NoTask

\* ids are task-<ms>-<random>; the model gives the next unused number
NextTaskId(table) ==
  IF \E id \in TaskIds : table[id].status = "none"
    THEN CHOOSE id \in TaskIds : table[id].status = "none" /\
                                 \A j \in TaskIds : table[j].status = "none" => id <= j
    ELSE 0

createTask(table, row) == [table EXCEPT ![NextTaskId(table)] = row]
updateTask(table, id, status) == [table EXCEPT ![id].status = status]
deleteTask(table, id) == [table EXCEPT ![id] = [NoTask EXCEPT !.status = "deleted"]]

\* CronExpressionParser.parse and new Date(value).getTime() on the samples
CronParses(value) == value \in {"0 9 * * *"}
DateParses(value) == value \in {"2026-02-01T15:30:00.000Z"}

\* a schedule check that lets every request through
AnyScheduleAccepted(scheduleType, scheduleValue) == TRUE

\* processTaskIpc 1472-1505: the schedule does not make the handler break
ScheduleAccepted(scheduleType, scheduleValue) ==
  IF scheduleType = "cron" THEN CronParses(scheduleValue)
  ELSE IF scheduleType = "interval"
    THEN ~parseInt(scheduleValue).nan /\ parseInt(scheduleValue).n > 0
  ELSE IF scheduleType = "once" THEN DateParses(scheduleValue)
  ELSE TRUE

\* Object.entries(registeredGroups).find(...): the first chat registered with
\* the folder, "" when there is none
ChatOfFolder(reg, folder) ==
  LET at == {i \in 1..Len(IpcChatOrder) : reg[IpcChatOrder[i]] = folder}
  IN IF at = {} THEN "" ELSE IpcChatOrder[CHOOSE i \in at : \A j \in at : i <= j]

\* a watcher that takes the source of a request from its payload
TrustPayload(sourceGroup, isMain, owner) == TRUE

\* the authorization test of the task cases (1448, 1535, 1552, 1569)
MayActOn(sourceGroup, isMain, owner) == isMain \/ owner = sourceGroup

\* processTaskIpc: [tasks, groups, refreshed] after the request was handled
processTaskIpc(data, sourceGroup, isMain, table, reg) ==
  LET same == [tasks |-> table, groups |-> reg, refreshed |-> FALSE] IN
  CASE data.type = "schedule_task" ->
         IF data.prompt = "" \/ data.schedule_type = "" \/ data.schedule_value = ""
              \/ data.groupFolder = ""
           THEN same
         ELSE IF ~MayActOn(sourceGroup, isMain, data.groupFolder) THEN same
         ELSE IF ChatOfFolder(reg, data.groupFolder) = "" THEN same
         ELSE IF ~ScheduleAccepted(data.schedule_type, data.schedule_value) THEN same
         ELSE [same EXCEPT !.tasks =
                 createTask(table, [group_folder |-> data.groupFolder,
                                    chat_jid |-> ChatOfFolder(reg, data.groupFolder),
                                    schedule_type |-> data.schedule_type,
                                    schedule_value |-> data.schedule_value,
                                    status |-> "active"])]
    [] data.type \in {"pause_task", "resume_task", "cancel_task"} ->
         IF data.taskId = 0 \/ getTask(table, data.taskId) = NoTask THEN same
         ELSE IF ~MayActOn(sourceGroup, isMain, getTask(table, data.taskId).group_folder)
           THEN same
         ELSE [same EXCEPT !.tasks =
                 IF data.type = "pause_task" THEN updateTask(table, data.taskId, "paused")
                 ELSE IF data.type = "resume_task" THEN updateTask(table, data.taskId, "active")
                 ELSE deleteTask(table, data.taskId)]
    [] data.type = "refresh_groups" ->
         IF isMain THEN [same EXCEPT !.refreshed = TRUE] ELSE same
    [] data.type = "register_group" ->
         IF ~isMain THEN same
         ELSE IF data.jid = "" \/ data.folder = "" THEN same
         ELSE [same EXCEPT !.groups = [reg EXCEPT ![data.jid] = data.folder]]
    [] OTHER -> same

\* JSON.parse threw, or reading a field of null threw: the catch renames the file
Throws(data) == data.json \in {"invalid", "null"}

\* the message case of the watcher (1327-1348): the text to send, if any
MessageSent(file, reg) ==
  LET data == file.data IN
  IF data.type = "message" /\ data.chatJid # "" /\ data.text # ""
       /\ MayActOn(file.source, file.source = MAIN_GROUP_FOLDER, reg[data.chatJid])
    THEN {[chatJid |-> data.chatJid, text |-> data.text, source |-> file.source]}
    ELSE {}

\* a container, or anything that can write under data/ipc, drops a file
IpcFileDropped ==
  \E file \in IpcFiles :
    /\ file \notin ipc.files \cup ipc.deleted \cup ipc.errors
    /\ Cardinality(ipc.files \cup ipc.deleted \cup ipc.errors) < MaxIpcFiles
    /\ ipc' = [ipc EXCEPT !.files = @ \cup {file}]
    /\ UNCHANGED <<tasks, groups>>

\* the watcher takes one file of its scan: it is handled and unlinked, or the
\* catch renames it to errors/<source>-<name>
IpcFileProcessed ==
  \E file \in ipc.files :
    IF Throws(file.data)
      THEN /\ ipc' = [ipc EXCEPT !.files = @ \ {file}, !.errors = @ \cup {file},
                                 !.last = file]
           /\ UNCHANGED <<tasks, groups>>
    ELSE IF file.dir = "messages"
      THEN /\ ipc' = [ipc EXCEPT !.files = @ \ {file}, !.deleted = @ \cup {file},
                                 !.sent = @ \cup MessageSent(file, groups),
                                 !.last = file]
           /\ UNCHANGED <<tasks, groups>>
    ELSE LET after == processTaskIpc(file.data, file.source,
                                     file.source = MAIN_GROUP_FOLDER, tasks, groups)
         IN /\ (file.data.type = "schedule_task") => NextTaskId(tasks) # 0
            /\ tasks' = after.tasks
            /\ groups' = after.groups
            /\ ipc' = [ipc EXCEPT !.files = @ \ {file}, !.deleted = @ \cup {file},
                                  !.refreshes = IF after.refreshed THEN @ \cup {file} ELSE @,
                                  !.last = file]

NoFile == [source |-> "", dir |-> "", data |-> NoData]

\* the context an agent's task tools are created with: the chat and the
\* folder of the group the container runs for
ToolContexts ==
  {[chatJid |-> "c1", groupFolder |-> MAIN_GROUP_FOLDER, isMain |-> TRUE],
   [chatJid |-> "c2", groupFolder |-> "team", isMain |-> FALSE]}

ToolActions == {"pause", "resume", "cancel"}

\* handleTaskAction of the agent-side tools: the object written to the file
handleTaskAction(action, task_id, ctx) ==
  [NoData EXCEPT !.type = action \o "_task", !.task_id = task_id,
                 !.groupFolder = ctx.groupFolder, !.chatJid = ctx.chatJid]

\* the agent calls pause_task, resume_task or cancel_task; writeIpcFile puts
\* the object under /workspace/ipc/tasks, the tasks directory of its group
TaskToolCalled ==
  \E action \in ToolActions, task_id \in TaskIds, ctx \in ToolContexts :
    LET file == [source |-> ctx.groupFolder, dir |-> "tasks",
                 data |-> handleTaskAction(action, task_id, ctx)] IN
    /\ file \notin ipc.files \cup ipc.deleted \cup ipc.errors
    /\ Cardinality(ipc.files \cup ipc.deleted \cup ipc.errors) < MaxIpcFiles
    /\ ipc' = [ipc EXCEPT !.files = @ \cup {file}]
    /\ UNCHANGED <<tasks, groups>>

\* a core with two registered groups, a task of each, and an empty data/ipc
IpcStarted ==
  /\ ipc = [files |-> {}, errors |-> {}, deleted |-> {}, sent |-> {}, refreshes |-> {},
            last |-> NoFile]
  /\ groups = [c \in IpcChats |-> IF c = "c1" THEN MAIN_GROUP_FOLDER
                                  ELSE IF c = "c2" THEN "team" ELSE ""]
  /\ tasks = [id \in TaskIds |->
                IF id = 1 THEN [group_folder |-> MAIN_GROUP_FOLDER, chat_jid |-> "c1",
                                schedule_type |-> "cron", schedule_value |-> "0 9 * * *",
                                status |-> "active"]
                ELSE IF id = 2 THEN [group_folder |-> "team", chat_jid |-> "c2",
                                     schedule_type |-> "interval",
                                     schedule_value |-> "300000", status |-> "active"]
                ELSE NoTask]

\* ------------------------------------------------------------------------
\* One turn: runAgent with its retries, fallbacks and plan repair, and the
\* part of processMessage that follows it
\* ------------------------------------------------------------------------
MaxTurns == 2

KNOWN_FALLBACK == "I could not generate a complete answer. Please retry."

\* what a planner answers: prose, and a plan block that is absent ("none"),
\* fails to parse or to validate ("invalid"), or holds a plan ("plan")
NoBlock == [kind |-> "none", actions |-> <<>>]
BadBlock == [kind |-> "invalid", actions |-> <<>>]
PlanBlock(actions) == [kind |-> "plan", actions |-> actions]
Blocks == {NoBlock, BadBlock, PlanBlock(<<>>), PlanBlock(<<SshUptime>>)}
RawReplies == {[text |-> t, block |-> b] : t \in {"", "done", KNOWN_FALLBACK}, b \in Blocks}

\* the empty string
NoRaw == [text |-> "", block |-> NoBlock]

\* ContainerOutput: status error, or success with a result
ContainerOutputs ==
  {[status |-> "error", result |-> NoRaw]} \cup {[status |-> "success", result |-> r] : r \in RawReplies}

\* runDirectFallbackAgent 982-1043: null (NoRaw) when the base URL or the key
\* is unset, when the request fails or when the answer has no text
DirectOutputs(configured) ==
  IF configured THEN RawReplies ELSE {NoRaw}

\* parsePlanFromText on a planner answer: the plan of its block, null for a
\* missing or invalid one
parsePlanOfReply(raw) ==
  IF raw.block.kind = "plan" THEN [plan |-> TRUE, actions |-> raw.block.actions]
                             ELSE [plan |-> FALSE, actions |-> <<>>]

\* stripPlanBlock: the text without the fenced block
stripPlanBlock(raw) == raw.text

\* the test of runAgent 1212-1215 on rawReply
NeedsDirectReply(raw) == raw = NoRaw \/ raw.text = KNOWN_FALLBACK

IdleTurn(configured) ==
  [pc |-> "idle", n |-> 0, content |-> "", session |-> FALSE, directConfigured |-> configured,
   path |-> "", raw |-> NoRaw, response |-> "none", reply |-> "",
   hasPlan |-> FALSE, usesEmpty |-> FALSE, actions |-> <<>>,
   plannerFailed |-> FALSE, repairPrompts |-> 0, repairFailed |-> FALSE,
   texts |-> <<>>, prompts |-> 0, proposal |-> 0, enqueueNull |-> FALSE]

\* processMessage 215-216: runAgent is called for the prompt of a main-chat
\* message; runContainerAgent is awaited with the stored session, if any
TurnStarts ==
  \E content \in {"hello", "@Andy see example.com"}, session \in BOOLEAN :
    /\ turn.pc = "idle"
    /\ turn.n < MaxTurns
    /\ turn' = [IdleTurn(turn.directConfigured) EXCEPT
                  !.pc = "invoke", !.n = turn.n + 1, !.content = content,
                  !.session = session]
    /\ UNCHANGED <<emptyPlan, queue>>

\* runAgent returns a response; processMessage goes on at line 219
Returns(t, raw, parsed) ==
  [t EXCEPT !.pc = "respond", !.response = "some", !.raw = raw,
            !.reply = stripPlanBlock(raw),
            !.hasPlan = parsed.plan, !.usesEmpty = ~parsed.plan,
            !.actions = parsed.actions]

\* runAgent 1222-1243: the first parse; without a plan the repair prompt goes
\* to the container agent
AfterFirstParse(t, raw) ==
  IF parsePlanOfReply(raw).plan
    THEN Returns(t, raw, parsePlanOfReply(raw))
    ELSE [t EXCEPT !.pc = "containerRepair", !.raw = raw,
                   !.repairPrompts = @ + 1]

\* runAgent 1172-1220: the container agent answers the prompt
ContainerAnswers ==
  \E output \in ContainerOutputs :
    /\ turn.pc \in {"invoke", "retry"}
    /\ turn' =
         IF output.status = "error" /\ turn.pc = "invoke" /\ turn.session
           THEN [turn EXCEPT !.pc = "retry", !.session = FALSE]
         ELSE IF output.status = "error"
           THEN [turn EXCEPT !.pc = "direct", !.path = "error"]
         ELSE IF NeedsDirectReply(output.result)
           THEN [turn EXCEPT !.pc = "direct", !.path = "success", !.raw = output.result]
         ELSE AfterFirstParse([turn EXCEPT !.path = "success"], output.result)
    /\ UNCHANGED <<emptyPlan, queue>>

\* runAgent 1189-1209 and 1216-1220: runDirectFallbackAgent settles
DirectAnswers ==
  \E direct \in DirectOutputs(turn.directConfigured) :
    /\ turn.pc = "direct"
    /\ turn' =
         IF turn.path = "error"
           THEN IF direct = NoRaw
                  THEN [turn EXCEPT !.pc = "respond", !.response = "null",
                                    !.plannerFailed = TRUE]
                ELSE IF parsePlanOfReply(direct).plan
                  THEN Returns(turn, direct, parsePlanOfReply(direct))
                ELSE [turn EXCEPT !.pc = "directRepair", !.raw = direct,
                                  !.repairPrompts = @ + 1]
         ELSE AfterFirstParse([turn EXCEPT !.plannerFailed = (direct = NoRaw /\ turn.raw = NoRaw)],
                              IF direct # NoRaw THEN direct ELSE turn.raw)
    /\ UNCHANGED <<emptyPlan, queue>>

\* runAgent 1236-1260: the container agent answers the repair prompt; a failed
\* request sends the repair prompt to the direct agent
ContainerRepairAnswers ==
  \E output \in ContainerOutputs :
    /\ turn.pc = "containerRepair"
    /\ turn' =
         IF output.status = "success" /\ output.result # NoRaw
           THEN IF parsePlanOfReply(output.result).plan
                  THEN Returns(turn, turn.raw, parsePlanOfReply(output.result))
                  ELSE [Returns(turn, turn.raw, parsePlanOfReply(turn.raw))
                          EXCEPT !.repairFailed = TRUE]
           ELSE [turn EXCEPT !.pc = "directRepair",
                             !.repairPrompts = IF turn.directConfigured THEN @ + 1 ELSE @]
    /\ UNCHANGED <<emptyPlan, queue>>

\* runDirectPlanRepair 1112-1117 settles (runAgent 1196-1202 and 1254-1259)
DirectRepairAnswers ==
  \E direct \in DirectOutputs(turn.directConfigured) :
    /\ turn.pc = "directRepair"
    /\ turn' =
         IF direct # NoRaw /\ parsePlanOfReply(direct).plan
           THEN Returns(turn, turn.raw, parsePlanOfReply(direct))
           ELSE [Returns(turn, turn.raw, parsePlanOfReply(turn.raw))
                   EXCEPT !.repairFailed = TRUE]
    /\ UNCHANGED <<emptyPlan, queue>>

\* processMessage 219-283 with the transport up: fallback web_fetch pushed
\* onto the plan object, enqueue, approval prompt, reply
TurnResponds ==
  /\ turn.pc = "respond"
  /\ IF turn.response = "null"
       THEN /\ turn' = [turn EXCEPT !.pc = "idle"]
            /\ UNCHANGED <<emptyPlan, queue>>
       ELSE LET planActions == IF turn.usesEmpty THEN emptyPlan ELSE turn.actions
                fallbackWebFetch == buildFallbackWebFetchAction(Trim(turn.content))
                inject == fallbackWebFetch # NoAction /\ ~hasWebFetch(planActions)
                actions == IF inject THEN Append(planActions, fallbackWebFetch)
                                     ELSE planActions
                enq == enqueueActionProposal(queue, MAIN_GROUP_FOLDER, "c1", actions)
                hasProposal == enq.record # NoRecord
                assistantText == stripPlainPlanJson(turn.reply)
                prompt == IF hasProposal THEN <<"Approval needed">> ELSE <<>>
                text == IF SendsReply(assistantText, hasProposal, hasWebFetch(actions))
                          THEN <<IF assistantText # "" THEN assistantText ELSE KNOWN_FALLBACK>>
                          ELSE <<>>
            IN /\ actions = <<>> \/ Len(queue) < MaxProposals
               /\ queue' = enq.queue
               /\ emptyPlan' = IF turn.usesEmpty THEN actions ELSE emptyPlan
               /\ turn' = [turn EXCEPT !.pc = "idle", !.actions = actions,
                                       !.texts = prompt \o text,
                                       !.prompts = Len(prompt),
                                       !.proposal = enq.record.id,
                                       !.enqueueNull = ~hasProposal]

\* a core whose shared empty plan is as the module defines it
TurnStarted(configured) ==
  /\ turn = IdleTurn(configured)
  /\ emptyPlan = <<>>

\* ------------------------------------------------------------------------
\* The JSON documents on disk: the proposal journal, the watermark document
\* and the session map, written by fs.writeFileSync and read back by
\* readActionQueue and loadJson
\* ------------------------------------------------------------------------
ACTION_QUEUE_PATH == "action-queue.json"
DiskFiles == {ACTION_QUEUE_PATH, "router_state.json", "sessions.json"}

\* what a killed writer leaves of the file it was writing
TornContents == {"empty", "partial"}

\* a writer that puts the document in a temporary file and renames it over
\* the target: killed at any point, it leaves the target as it was
writeTempThenRename(before, interrupted, left) == IF interrupted THEN before ELSE "whole"

\* fs.writeFileSync(path, text): the file is truncated and the text written;
\* a process killed in between leaves an empty file or the head of the text
writeFileSync(before, interrupted, left) == IF interrupted THEN left ELSE "whole"

\* readActionQueue: the array in the file; [] when the file is absent or
\* empty, is not a JSON array, or the read throws
readActionQueue(files, q, readOk) ==
  IF readOk /\ files[ACTION_QUEUE_PATH] = "whole" THEN q ELSE <<>>

\* loadJson: the document, or the fallback when the file is absent, empty or
\* not JSON, or the read throws
loadJson(files, path, readOk) ==
  IF readOk /\ files[path] = "whole" THEN "document" ELSE "fallback"

NoDiskOp == [op |-> "", path |-> "", read |-> TRUE, fileBefore |-> "whole",
             before |-> <<>>, record |-> NoRecord]

\* enqueueActionProposal on the file: read, push, write
JournalEnqueue ==
  \E actions \in {<<>>, <<SshUptime>>, <<SshUptime, SshReboot>>}, readOk \in BOOLEAN :
    LET q == readActionQueue(disk.files, queue, readOk)
        enq == enqueueActionProposal(q, MAIN_GROUP_FOLDER, "c1", actions)
    IN /\ disk.core = "up"
       /\ Len(q) < MaxProposals
       /\ IF enq.record = NoRecord
            THEN /\ UNCHANGED queue
                 /\ disk' = [disk EXCEPT !.last = [NoDiskOp EXCEPT !.op = "enqueue",
                                                      !.path = ACTION_QUEUE_PATH,
                                                      !.before = queue]]
            ELSE /\ queue' = enq.queue
                 /\ disk' = [disk EXCEPT
                       !.files[ACTION_QUEUE_PATH] = writeFileSync(@, FALSE, "empty"),
                       !.last = [op |-> "enqueue", path |-> ACTION_QUEUE_PATH, read |-> readOk,
                                 fileBefore |-> disk.files[ACTION_QUEUE_PATH],
                                 before |-> queue, record |-> enq.record]]
       /\ UNCHANGED now

\* decideActionProposal on the file: read, find, change, write
JournalDecide ==
  \E id \in TypedIds, decision \in {"approved", "denied"}, readOk \in BOOLEAN :
    LET q == readActionQueue(disk.files, queue, readOk)
        dec == decideActionProposal(q, id, decision, "", now)
    IN /\ disk.core = "up"
       /\ IF dec.record = NoRecord
            THEN /\ UNCHANGED queue
                 /\ disk' = [disk EXCEPT !.last = [NoDiskOp EXCEPT !.op = "decide",
                                                      !.path = ACTION_QUEUE_PATH,
                                                      !.read = readOk, !.before = queue]]
            ELSE /\ queue' = dec.queue
                 /\ disk' = [disk EXCEPT
                       !.files[ACTION_QUEUE_PATH] = writeFileSync(@, FALSE, "empty"),
                       !.last = [op |-> "decide", path |-> ACTION_QUEUE_PATH, read |-> readOk,
                                 fileBefore |-> disk.files[ACTION_QUEUE_PATH],
                                 before |-> queue, record |-> dec.record]]
       /\ UNCHANGED now

\* saveJson: the watermark document or the session map is written in full
JsonSaved ==
  \E path \in DiskFiles \ {ACTION_QUEUE_PATH} :
    /\ disk.core = "up"
    /\ disk' = [disk EXCEPT !.files[path] = writeFileSync(@, FALSE, "empty"),
                            !.last = [NoDiskOp EXCEPT !.op = "save", !.path = path]]
    /\ UNCHANGED <<queue, now>>

\* the core process is killed while writeActionQueue or saveJson is writing
WriteInterrupted ==
  \E path \in DiskFiles, left \in TornContents :
    /\ disk.core = "up"
    /\ disk' = [disk EXCEPT !.files[path] = writeFileSync(@, TRUE, left),
                            !.core = "down",
                            !.last = [NoDiskOp EXCEPT !.op = "killed", !.path = path,
                                                      !.fileBefore = disk.files[path],
                                                      !.before = queue]]
    /\ UNCHANGED <<queue, now>>

\* main: the core starts again; loadState reads the watermark document and the
\* session map, and the first approval handler reads the journal the same way
CoreStarted ==
  /\ disk.core = "down"
  /\ disk' = [disk EXCEPT
        !.core = "up",
        !.loaded = [path \in DiskFiles |->
                      loadJson(disk.files, path, TRUE)],
        !.last = [NoDiskOp EXCEPT !.op = "start"]]
  /\ UNCHANGED <<queue, now>>

\* the data directory of a running core with every document written in full
DiskStarted ==
  disk = [files |-> [path \in DiskFiles |-> "whole"], core |-> "up",
          loaded |-> [path \in DiskFiles |-> "document"], last |-> NoDiskOp]

\* ------------------------------------------------------------------------
\* Plan contract: formatPlanBlock, extractPlanBlock, parsePlanJson and the
\* validators. A JSON object is the sequence of its <<key, value>> pairs; ""
\* is a value that is absent; booleans are written "true" and "false"
\* ------------------------------------------------------------------------
ActionKeys == <<"type", "target", "command", "url", "mode", "path", "patch", "task",
                "reason", "requiresApproval", "executionMode", "parallelGroup">>
ActionKeySet == {ActionKeys[i] : i \in 1..Len(ActionKeys)}

NoFields == [k \in ActionKeySet |-> ""]

\* the null of a validator
NoPlanAction == NoFields

\* sample texts that hold a run of three backticks
\* (a backtick cannot be written in a string of this module: BQ stands for one)
FencedSnippet == "BQBQBQjs xBQBQBQ"
HasFence(value) == value = FencedSnippet

ALLOWED_TARGETS == {"william", "willy-ubuntu"}

\* new URL(url) with protocol http: or https:
IsHttpUrl(url) == url \in {"https://example.com", "http://example.com/a"}

\* JSON.stringify of an action: its defined fields, in key order
StringifyAction(action) ==
  LET defined == {i \in 1..Len(ActionKeys) : action[ActionKeys[i]] # ""}
      Nth(n) == CHOOSE i \in defined : Cardinality({j \in defined : j < i}) = n - 1
  IN [n \in 1..Cardinality(defined) |-> <<ActionKeys[Nth(n)], action[ActionKeys[Nth(n)]]>>]

\* JSON.parse of an object text: the value of each key, absent when not written
ObjectOf(pairs) ==
  [k \in ActionKeySet |->
     IF \E j \in 1..Len(pairs) : pairs[j][1] = k
       THEN pairs[CHOOSE j \in 1..Len(pairs) : pairs[j][1] = k][2]
       ELSE ""]

\* formatPlanBlock: '```json\n' + JSON.stringify(plan, null, 2) + '\n```'
formatPlanBlock(plan) ==
  [prose |-> "", tag |-> "BQBQBQjson",
   objects |-> [i \in 1..Len(plan) |-> StringifyAction(plan[i])]]

\* some string of the JSON text holds three backticks
FenceInside(objects) ==
  \E i \in 1..Len(objects) : \E j \in 1..Len(objects[i]) : HasFence(objects[i][j][2])

\* extractPlanBlock: the text from the first fence to the next run of three
\* backticks; cut says that this run lies inside the JSON text, which the
\* match then ends in the middle of
extractPlanBlock(text) ==
  IF text.tag # ""
    THEN [found |-> TRUE, objects |-> text.objects, cut |-> FenceInside(text.objects)]
  ELSE IF FenceInside(text.objects)
    THEN [found |-> TRUE, objects |-> <<>>, cut |-> TRUE]
  ELSE [found |-> FALSE, objects |-> <<>>, cut |-> FALSE]

\* parseExecutionHints: executionMode is kept only when it is background
parseExecutionHints(value) ==
  [executionMode |-> IF value.executionMode = "background" THEN "background" ELSE "",
   parallelGroup |-> TrimCommand(value.parallelGroup)]

WithHints(action, value) ==
  [action EXCEPT !.executionMode = parseExecutionHints(value).executionMode,
                 !.parallelGroup = parseExecutionHints(value).parallelGroup]

\* typeof value.requiresApproval === 'boolean' ? value.requiresApproval : fallback
ApprovalOr(value, fallback) ==
  IF value.requiresApproval \in {"true", "false"} THEN value.requiresApproval ELSE fallback

validateSshAction(value) ==
  IF TrimCommand(value.command) = "" \/ TrimCommand(value.reason) = ""
       \/ value.target \notin ALLOWED_TARGETS
    THEN NoPlanAction
    ELSE WithHints([NoFields EXCEPT !.type = "ssh", !.command = TrimCommand(value.command),
                                    !.target = value.target,
                                    !.requiresApproval = ApprovalOr(value, "true"),
                                    !.reason = TrimCommand(value.reason)], value)

validateObsidianWriteAction(value) ==
  IF TrimCommand(value.path) = "" \/ TrimCommand(value.patch) = ""
       \/ TrimCommand(value.reason) = ""
    THEN NoPlanAction
    ELSE WithHints([NoFields EXCEPT !.type = "obsidian_write",
                                    !.path = TrimCommand(value.path),
                                    !.patch = TrimCommand(value.patch),
                                    !.requiresApproval = ApprovalOr(value, "true"),
                                    !.reason = TrimCommand(value.reason)], value)

\* a default that is true whatever the mode
ApprovalDefaultsToTrue(mode) == "true"

\* validateWebFetchAction 749: the default is `mode === 'browser'`
WebFetchApprovalDefault(mode) == IF mode = "browser" THEN "true" ELSE "false"

validateWebFetchAction(value) ==
  LET mode == IF TrimCommand(value.mode) = "browser" THEN "browser" ELSE "http" IN
  IF TrimCommand(value.url) = "" \/ TrimCommand(value.reason) = ""
       \/ ~IsHttpUrl(TrimCommand(value.url))
    THEN NoPlanAction
    ELSE WithHints([NoFields EXCEPT !.type = "web_fetch", !.url = TrimCommand(value.url),
                                    !.mode = mode,
                                    !.requiresApproval =
                                       ApprovalOr(value, WebFetchApprovalDefault(mode)),
                                    !.reason = TrimCommand(value.reason)], value)

validateOpencodeServeAction(value) ==
  IF TrimCommand(value.task) = "" \/ TrimCommand(value.reason) = ""
    THEN NoPlanAction
    ELSE WithHints([NoFields EXCEPT !.type = "opencode_serve",
                                    !.task = TrimCommand(value.task),
                                    !.requiresApproval = ApprovalOr(value, "true"),
                                    !.reason = TrimCommand(value.reason)], value)

validateAction(value) ==
  CASE value.type = "reply" -> [NoFields EXCEPT !.type = "reply"]
    [] value.type = "ssh" -> validateSshAction(value)
    [] value.type = "obsidian_write" -> validateObsidianWriteAction(value)
    [] value.type = "web_fetch" -> validateWebFetchAction(value)
    [] value.type = "opencode_serve" -> validateOpencodeServeAction(value)
    [] OTHER -> NoPlanAction

NoParse == [plan |-> FALSE, actions |-> <<>>, errors |-> 1]

\* parsePlanJson: null when JSON.parse throws or an action fails validation
parsePlanJson(block) ==
  LET validated == [i \in 1..Len(block.objects) |-> validateAction(ObjectOf(block.objects[i]))]
  IN IF block.cut \/ \E i \in 1..Len(validated) : validated[i] = NoPlanAction
       THEN NoParse
       ELSE [plan |-> TRUE, actions |-> validated, errors |-> 0]

\* parsePlanFromText: the fenced block, else the whole text as JSON
parsePlanFromText(text) ==
  LET block == extractPlanBlock(text) IN
  IF block.found THEN parsePlanJson(block)
  ELSE IF text.prose = "" THEN parsePlanJson([found |-> TRUE, objects |-> text.objects,
                                              cut |-> FALSE])
  ELSE NoParse

\* actions of schema-valid plans
PlanSsh == [NoFields EXCEPT !.type = "ssh", !.target = "william", !.command = "uptime",
                            !.reason = "check load", !.requiresApproval = "true",
                            !.parallelGroup = "g1"]
PlanWebBrowser == [NoFields EXCEPT !.type = "web_fetch", !.url = "https://example.com",
                                   !.mode = "browser", !.reason = "read page",
                                   !.requiresApproval = "true"]
PlanWebHttp == [PlanWebBrowser EXCEPT !.mode = "http", !.requiresApproval = "false"]
PlanNote == [NoFields EXCEPT !.type = "obsidian_write", !.path = "notes/x.md",
                             !.patch = "add line", !.reason = "remember",
                             !.requiresApproval = "true"]
PlanNoteWithCode == [PlanNote EXCEPT !.patch = FencedSnippet]
PlanOpencodeBackground == [NoFields EXCEPT !.type = "opencode_serve", !.task = "refactor",
                                           !.reason = "asked", !.requiresApproval = "true",
                                           !.executionMode = "background"]
PlanOpencodeForeground == [PlanOpencodeBackground EXCEPT !.executionMode = "foreground"]

ValidActions == {[NoFields EXCEPT !.type = "reply"], PlanSsh, PlanWebBrowser, PlanWebHttp,
                 PlanNote, PlanNoteWithCode, PlanOpencodeBackground, PlanOpencodeForeground}

\* the sequences of at most n elements of a set
SeqsUpTo(S, n) == UNION {[1..m -> S] : m \in 0..n}

ValidPlans == SeqsUpTo(ValidActions, MaxPlanLen)

\* web_fetch objects a planner writes: any mode, requiresApproval given or not
WrittenWebFetch ==
  {[NoFields EXCEPT !.type = "web_fetch", !.url = u, !.mode = m, !.reason = r,
                    !.requiresApproval = a] :
     u \in {"https://example.com", "ftp://example.com"}, m \in {"", "http", "browser"},
     r \in {"read page", ""}, a \in {"", "true", "false"}}

IdleContract == [pc |-> "idle", plan |-> <<>>, text |-> formatPlanBlock(<<>>),
                 result |-> NoParse]

\* a schema-valid plan is serialized
PlanFormatted ==
  \E plan \in ValidPlans :
    /\ contract.pc = "idle"
    /\ contract' = [pc |-> "formatted", plan |-> plan, text |-> formatPlanBlock(plan),
                    result |-> NoParse]

\* the planner answers with a fenced block holding one web_fetch object
PlanWritten ==
  \E value \in WrittenWebFetch, tag \in {"BQBQBQjson", "BQBQBQ", ""} :
    /\ contract.pc = "idle"
    /\ contract' = [pc |-> "written", plan |-> <<value>>,
                    text |-> [prose |-> "", tag |-> tag,
                              objects |-> <<StringifyAction(value)>>],
                    result |-> NoParse]

\* the text is parsed
PlanParsed ==
  /\ contract.pc \in {"formatted", "written"}
  /\ contract' = [contract EXCEPT
        !.pc = IF contract.pc = "formatted" THEN "roundtrip" ELSE "parsed",
        !.result = parsePlanFromText(contract.text)]

ContractStarted == contract = IdleContract

\* ------------------------------------------------------------------------
\* The read-only allowlist on commands written out as sequences of lexemes:
\* a command word, a flag (-[a-zA-Z]+), an absolute path (/[A-Za-z0-9._/-]+),
\* a white-space character, or a shell metacharacter
\* ------------------------------------------------------------------------
MaxCmdLen == 4

CmdWords == {"uptime", "df", "ls", "rm"}
CmdFlags == {"-h"}
CmdPaths == {"/data"}
CmdSpaces == {" ", "NL"}
CmdMeta == {";", "$"}
Lexemes == CmdWords \cup CmdFlags \cup CmdPaths \cup CmdSpaces \cup CmdMeta

CommandTexts == UNION {[1..n -> Lexemes] : n \in 0..MaxCmdLen}

\* String.prototype.trim: white space (line terminators included) is removed
\* from both ends
RECURSIVE TrimStart(_)
TrimStart(cmd) ==
  IF cmd # <<>> /\ Head(cmd) \in CmdSpaces THEN TrimStart(Tail(cmd)) ELSE cmd

RECURSIVE TrimEnd(_)
TrimEnd(cmd) ==
  IF cmd # <<>> /\ cmd[Len(cmd)] \in CmdSpaces
    THEN TrimEnd(SubSeq(cmd, 1, Len(cmd) - 1)) ELSE cmd

TrimText(cmd) == TrimEnd(TrimStart(cmd))

\* BLOCKED_META_CHARS.test(trimmed)
HasBlockedMetaChar(cmd) == \E i \in 1..Len(cmd) : cmd[i] \in CmdMeta

\* \s+ at position i: the position after the run, 0 when there is no run
RECURSIVE AfterSpaces(_, _)
AfterSpaces(cmd, i) ==
  IF i > Len(cmd) \/ cmd[i] \notin CmdSpaces THEN 0
  ELSE IF i + 1 <= Len(cmd) /\ cmd[i + 1] \in CmdSpaces THEN AfterSpaces(cmd, i + 1)
  ELSE i + 1

\* (?:\s+-[a-zA-ZhT]+)*(?:\s+\/[A-Za-z0-9._/-]+)?$ from position i
RECURSIVE DfRest(_, _)
DfRest(cmd, i) ==
  IF i > Len(cmd) THEN TRUE
  ELSE LET j == AfterSpaces(cmd, i) IN
       IF j = 0 \/ j > Len(cmd) THEN FALSE
       ELSE IF cmd[j] \in CmdFlags THEN DfRest(cmd, j + 1)
       ELSE cmd[j] \in CmdPaths /\ j = Len(cmd)

\* /^uptime$/
MatchesUptime(cmd) == cmd = <<"uptime">>

\* /^df(?:\s+-[a-zA-ZhT]+)*(?:\s+\/[A-Za-z0-9._/-]+)?$/
MatchesDf(cmd) == cmd # <<>> /\ cmd[1] = "df" /\ DfRest(cmd, 2)

\* /^ls(?:\s+-[a-zA-Z]+)?\s+\/[A-Za-z0-9._/-]+$/
MatchesLs(cmd) ==
  /\ cmd # <<>> /\ cmd[1] = "ls"
  /\ LET j == AfterSpaces(cmd, 2) IN
       /\ j # 0 /\ j <= Len(cmd)
       /\ \/ cmd[j] \in CmdPaths /\ j = Len(cmd)
          \/ /\ cmd[j] \in CmdFlags
             /\ LET k == AfterSpaces(cmd, j + 1) IN
                  k # 0 /\ k = Len(cmd) /\ cmd[k] \in CmdPaths

\* patterns tested without their anchors
MatchesAnywhere(cmd) ==
  \E i \in 1..Len(cmd) : cmd[i] \in {"uptime", "df"}

\* ALLOWED_READONLY_COMMANDS.some((pattern) => pattern.test(trimmed))
MatchesReadonlyPattern(cmd) == MatchesUptime(cmd) \/ MatchesDf(cmd) \/ MatchesLs(cmd)

\* isAllowedReadonlyCommand on the written-out command
AcceptsReadonlyCommand(cmd) ==
  LET trimmed == TrimText(cmd) IN
  IF trimmed = <<>> THEN FALSE
  ELSE IF HasBlockedMetaChar(trimmed) THEN FALSE
  ELSE MatchesReadonlyPattern(trimmed)

IdleFilter == [kind |-> "", cmd |-> <<>>, url |-> "", accepted |-> FALSE]

\* executeApprovedActions 227: the filter is asked about an ssh command
CommandChecked ==
  /\ filter.kind = ""
  /\ \E cmd \in CommandTexts :
       filter' = [IdleFilter EXCEPT !.kind = "ssh", !.cmd = cmd,
                                   !.accepted = AcceptsReadonlyCommand(cmd)]

FilterUrls ==
  {"https://example.com/", "http://169.254.169.254/latest/meta-data", "http://localhost:8080/",
   "http://10.0.0.5/", "ftp://example.com/", "http://1.1.1.1/", "http://127.0.0.1/",
   "http://2130706433/", "http://0.0.0.0/", "http://169.254.10.1/", "http://172.16.0.1/",
   "http://172.32.0.1/", "http://192.168.1.10/status", "http://printer.local/",
   "http://db.internal/", "http://fcbarcelona.com/", "http://[::1]/", "http://[FD00::1]/",
   "http://[fe80::1]/", "http://[2606:4700::1111]/", "not a url"}

\* executeApprovedActions 238: the filter is asked about the url of a web_fetch
UrlChecked ==
  /\ filter.kind = ""
  /\ \E url \in FilterUrls :
       filter' = [IdleFilter EXCEPT !.kind = "web_fetch", !.url = url,
                                   !.accepted = isAllowedWebUrl(url)]

FilterStarted == filter = IdleFilter

\* the parts added last, as they are at the start
LateInit == ContractStarted /\ FilterStarted

\* the added parts as they are at the start
SideInit == IpcStarted /\ TurnStarted(TRUE) /\ DiskStarted /\ LateInit

\* ------------------------------------------------------------------------
\* Specification of the approval gateway (the runner stays as started)
\* ------------------------------------------------------------------------
Init ==
  /\ ApprovalInit
  /\ RunnerStarted("k1", "")
  /\ LoopInit
  /\ ExecutorStarted(EnabledExecConfig)
  /\ SideInit

Next ==
  \/ ProposalEnqueued /\ UNCHANGED <<runnerVars, loopVars, executorVars, sideVars>>
  \/ ApprovalRequest /\ UNCHANGED <<runnerVars, loopVars, executorVars, sideVars>>
  \/ HandlerStep /\ UNCHANGED <<runnerVars, loopVars, executorVars, sideVars>>

Spec == Init /\ [][Next]_vars

\* ------------------------------------------------------------------------
\* Specification of the runner (the core stays as started)
\* ------------------------------------------------------------------------
\* a dispatch as the core sends it: signed with the configured secret
CoreDispatch ==
  \E body \in Bodies :
    /\ HandleDispatch("1700000000000",
         SigHeader("sha256=", buildSignature("1700000000000", body, webhookSecret)), body)
    /\ UNCHANGED <<webhookSecret, maxParallel>>

WorkerStep == \E r \in RunIds, ok \in BOOLEAN : WorkerResumes(r, ok)

\* the run registry under dispatches of the core, cancels, reads and restarts
RunnerInit ==
  /\ ApprovalInit
  /\ RunnerStarted("k1", "")
  /\ LoopInit
  /\ ExecutorStarted(EnabledExecConfig)
  /\ SideInit

RunnerNext ==
  \/ CoreDispatch /\ UNCHANGED <<approvalVars, loopVars, executorVars, sideVars>>
  \/ ActionStep /\ UNCHANGED <<approvalVars, loopVars, executorVars, sideVars>>
  \/ WorkerStep /\ UNCHANGED <<approvalVars, loopVars, executorVars, sideVars>>
  \/ CancelRequest /\ UNCHANGED <<approvalVars, loopVars, executorVars, sideVars>>
  \/ GetRequest /\ UNCHANGED <<approvalVars, loopVars, executorVars, sideVars>>
  \/ ListRequest /\ UNCHANGED <<approvalVars, loopVars, executorVars, sideVars>>
  \/ RunnerRestart /\ UNCHANGED <<approvalVars, loopVars, executorVars, sideVars>>

RunnerSpec == RunnerInit /\ [][RunnerNext]_vars

\* POST /dispatch from any sender, with and without a configured secret
SignatureInit ==
  /\ ApprovalInit
  /\ \E secret \in {"", "k1"} : RunnerStarted(secret, "")
  /\ LoopInit
  /\ ExecutorStarted(EnabledExecConfig)
  /\ SideInit

SignatureNext ==
  \/ DispatchRequest /\ UNCHANGED <<approvalVars, loopVars, executorVars, sideVars>>
  \/ ActionStep /\ UNCHANGED <<approvalVars, loopVars, executorVars, sideVars>>
  \/ WorkerStep /\ UNCHANGED <<approvalVars, loopVars, executorVars, sideVars>>

SignatureSpec == SignatureInit /\ [][SignatureNext]_vars

\* the execution of dispatches under every setting of DISPATCH_MAX_PARALLEL
ParallelSettings == {"", "-1", "0", "1", "2", "abc"}

DispatchInit ==
  /\ ApprovalInit
  /\ \E parallel \in ParallelSettings : RunnerStarted("", parallel)
  /\ LoopInit
  /\ ExecutorStarted(EnabledExecConfig)
  /\ SideInit

DispatchNext ==
  \/ CoreDispatch /\ UNCHANGED <<approvalVars, loopVars, executorVars, sideVars>>
  \/ ActionStep /\ UNCHANGED <<approvalVars, loopVars, executorVars, sideVars>>
  \/ WorkerStep /\ UNCHANGED <<approvalVars, loopVars, executorVars, sideVars>>

DispatchSpec == DispatchInit /\ [][DispatchNext]_vars

\* an executeDispatchAction call of the running dispatch has not returned yet;
\* this is when ActionStep is enabled
ActionPending == disp.phase = "run" /\ disp.inflight # {}

\* every call of executeDispatchAction returns (ssh, fetch and upstream calls
\* carry a timeout): weak fairness of ActionStep, written out with
\* ActionPending for ENABLED ActionStep
DispatchFairSpec ==
  /\ DispatchSpec
  /\ \/ []<>(~ActionPending)
     \/ []<><<ActionStep /\ UNCHANGED <<approvalVars, loopVars, executorVars, sideVars>>>>_vars

\* ------------------------------------------------------------------------
\* Specification of the message loop (the gateway and the runner stay as started)
\* ------------------------------------------------------------------------
coreRest == <<now, handlers, execCalls, posts>>

LoopSpecInit ==
  /\ ApprovalInit
  /\ RunnerStarted("k1", "")
  /\ LoopInit
  /\ ExecutorStarted(EnabledExecConfig)
  /\ SideInit

LoopNext ==
  \/ MessageArrives /\ UNCHANGED <<coreRest, runnerVars, executorVars, sideVars>>
  \/ ClockTicks /\ UNCHANGED <<coreRest, runnerVars, executorVars, sideVars>>
  \/ LoopFetch /\ UNCHANGED <<coreRest, runnerVars, executorVars, sideVars>>
  \/ ProcessStart /\ UNCHANGED <<coreRest, runnerVars, executorVars, sideVars>>
  \/ PlannerReturns /\ UNCHANGED <<coreRest, runnerVars, executorVars, sideVars>>
  \/ PromptSettles /\ UNCHANGED <<coreRest, runnerVars, executorVars, sideVars>>
  \/ ReplySettles /\ UNCHANGED <<coreRest, runnerVars, executorVars, sideVars>>
  \/ CoreRestart /\ UNCHANGED <<coreRest, runnerVars, executorVars, sideVars>>

LoopSpec == LoopSpecInit /\ [][LoopNext]_vars

\* ------------------------------------------------------------------------
\* Specification of the dispatcher: a core process started under any
\* configuration executes an approved proposal
\* ------------------------------------------------------------------------
ExecutorInit ==
  /\ ApprovalInit
  /\ RunnerStarted("k1", "")
  /\ LoopInit
  /\ \E cfg \in ExecConfigs : ExecutorStarted(cfg)
  /\ SideInit

ExecutorNext ==
  \/ ExecutorCalled /\ UNCHANGED <<approvalVars, runnerVars, loopVars, sideVars>>
  \/ ExecutorPostSettles /\ UNCHANGED <<approvalVars, runnerVars, loopVars, sideVars>>

ExecutorSpec == ExecutorInit /\ [][ExecutorNext]_vars

\* ------------------------------------------------------------------------
\* Specification of the IPC watcher: files are dropped under data/ipc and the
\* watcher handles them one at a time
\* ------------------------------------------------------------------------
IpcInit ==
  /\ ApprovalInit
  /\ RunnerStarted("k1", "")
  /\ LoopInit
  /\ ExecutorStarted(EnabledExecConfig)
  /\ SideInit

IpcNext ==
  \/ IpcFileDropped /\ UNCHANGED <<approvalVars, runnerVars, loopVars, executorVars, turnVars, diskVars, lateVars>>
  \/ IpcFileProcessed /\ UNCHANGED <<approvalVars, runnerVars, loopVars, executorVars, turnVars, diskVars, lateVars>>

IpcSpec == IpcInit /\ [][IpcNext]_vars

\* ------------------------------------------------------------------------
\* Specification of the agent-side task tools and the watcher
\* ------------------------------------------------------------------------
ToolInit ==
  /\ ApprovalInit
  /\ RunnerStarted("k1", "")
  /\ LoopInit
  /\ ExecutorStarted(EnabledExecConfig)
  /\ SideInit

toolRest == <<approvalVars, runnerVars, loopVars, executorVars, turnVars, diskVars, lateVars>>

ToolNext ==
  \/ TaskToolCalled /\ UNCHANGED toolRest
  \/ IpcFileProcessed /\ UNCHANGED toolRest

ToolSpec == ToolInit /\ [][ToolNext]_vars

\* ------------------------------------------------------------------------
\* Specification of the turns of one chat, with the direct agent configured
\* or not
\* ------------------------------------------------------------------------
TurnInit ==
  /\ ApprovalInit
  /\ RunnerStarted("k1", "")
  /\ LoopInit
  /\ ExecutorStarted(EnabledExecConfig)
  /\ IpcStarted
  /\ \E configured \in BOOLEAN : TurnStarted(configured)
  /\ DiskStarted
  /\ LateInit

turnRest == <<now, handlers, execCalls, posts, runnerVars, loopVars, executorVars, ipcVars,
              diskVars, lateVars>>

TurnNext ==
  \/ TurnStarts /\ UNCHANGED turnRest
  \/ ContainerAnswers /\ UNCHANGED turnRest
  \/ DirectAnswers /\ UNCHANGED turnRest
  \/ ContainerRepairAnswers /\ UNCHANGED turnRest
  \/ DirectRepairAnswers /\ UNCHANGED turnRest
  \/ TurnResponds /\ UNCHANGED turnRest

TurnSpec == TurnInit /\ [][TurnNext]_vars

\* ------------------------------------------------------------------------
\* Specification of the documents on disk: enqueue and decide on the journal
\* file, with reads that can fail and a core that can be killed while writing
\* ------------------------------------------------------------------------
JournalInit ==
  /\ ApprovalInit
  /\ RunnerStarted("k1", "")
  /\ LoopInit
  /\ ExecutorStarted(EnabledExecConfig)
  /\ SideInit

journalRest == <<handlers, execCalls, posts, runnerVars, loopVars, executorVars, ipcVars,
                 turnVars, lateVars>>

JournalNext ==
  \/ JournalEnqueue /\ UNCHANGED journalRest
  \/ JournalDecide /\ UNCHANGED journalRest
  \/ JsonSaved /\ UNCHANGED journalRest
  \/ WriteInterrupted /\ UNCHANGED journalRest
  \/ CoreStarted /\ UNCHANGED journalRest

JournalSpec == JournalInit /\ [][JournalNext]_vars

\* ------------------------------------------------------------------------
\* Specification of the plan contract: plans are serialized and parsed
\* ------------------------------------------------------------------------
ContractInit ==
  /\ ApprovalInit
  /\ RunnerStarted("k1", "")
  /\ LoopInit
  /\ ExecutorStarted(EnabledExecConfig)
  /\ SideInit

contractRest == <<approvalVars, runnerVars, loopVars, executorVars, ipcVars, turnVars,
                  diskVars, filter>>

ContractNext ==
  \/ PlanFormatted /\ UNCHANGED contractRest
  \/ PlanWritten /\ UNCHANGED contractRest
  \/ PlanParsed /\ UNCHANGED contractRest

ContractSpec == ContractInit /\ [][ContractNext]_vars

\* ------------------------------------------------------------------------
\* Specification of the safety filters: commands and urls are handed to them
\* ------------------------------------------------------------------------
FilterInit ==
  /\ ApprovalInit
  /\ RunnerStarted("k1", "")
  /\ LoopInit
  /\ ExecutorStarted(EnabledExecConfig)
  /\ SideInit

filterRest == <<approvalVars, runnerVars, loopVars, executorVars, ipcVars, turnVars,
                diskVars, contract>>

FilterNext ==
  \/ CommandChecked /\ UNCHANGED filterRest
  \/ UrlChecked /\ UNCHANGED filterRest

FilterSpec == FilterInit /\ [][FilterNext]_vars

\* ------------------------------------------------------------------------
\* Claims on the approval gateway and the proposal store
\* ------------------------------------------------------------------------
HasId(id) == IndexOfId(queue, id) # 0
StatusOf(id) == getActionProposalById(queue, id).status

\* C1: executeApprovedActions is called only by an approve handler whose decide
\* returned the record; the proposal is then approved (never proposed or denied),
\* and no proposal is handed over by two handlers. The same holds of the POSTs.
C1_DispatchOnlyByWinningApprove ==
  /\ \A c \in execCalls :
        /\ c.kind = "approved" /\ c.decideOk
        /\ HasId(c.id) /\ StatusOf(c.id) = "approved"
        /\ \A c2 \in execCalls : c2.id = c.id => c2 = c
  /\ \A p \in posts :
        /\ \E c \in execCalls : c.handler = p.handler /\ c.id = p.id
        /\ \A p2 \in posts : p2.id = p.id => p2 = p

\* a proposal was dispatched while another approve of it got null
C1_Witness ==
  \E c \in execCalls, h \in 1..Len(handlers) :
    /\ h # c.handler
    /\ handlers[h].id = c.id /\ handlers[h].kind = "approved"
    /\ ~handlers[h].decideOk /\ handlers[h].pc = "reply"
    /\ \E p \in posts : p.id = c.id

NewHandler == Len(handlers') = Len(handlers) + 1
Newest == handlers'[Len(handlers')]

\* C2: a decided record never changes again (status, decidedAt, decisionReason),
\* a record only moves from proposed to approved or denied, and decide returns
\* null for a decided proposal and for an unknown id.
C2_DecidedIsFinal ==
  [][ /\ \A i \in 1..Len(queue) :
           /\ i <= Len(queue')
           /\ queue[i].status # "proposed" => queue'[i] = queue[i]
           /\ queue'[i].status # queue[i].status =>
                 queue[i].status = "proposed" /\ queue'[i].status \in {"approved", "denied"}
      /\ NewHandler =>
           ((~HasId(Newest.id) \/ StatusOf(Newest.id) # "proposed") => ~Newest.decideOk) ]_vars

\* a deny with a reason was attempted on an approved proposal
C2_Witness ==
  \E h \in 1..Len(handlers) :
    /\ handlers[h].kind = "denied" /\ ~handlers[h].decideOk /\ handlers[h].pc = "reply"
    /\ HasId(handlers[h].id) /\ StatusOf(handlers[h].id) = "approved"

\* C3: of the decisions issued for one proposal, the one that finds it proposed
\* succeeds and every other gets null and replies "already approved" or
\* "already denied" according to the decision that won.
C3_FirstDecideWins ==
  [][ (NewHandler /\ HasId(Newest.id)) =>
        /\ Newest.decideOk <=> StatusOf(Newest.id) = "proposed"
        /\ ~Newest.decideOk => Newest.reply = "already " \o StatusOf(Newest.id)
        /\ Newest.decideOk => getActionProposalById(queue', Newest.id).status = Newest.kind ]_vars

\* a deny lost against an approve whose handler is still in flight
C3_Witness ==
  \E w, l \in 1..Len(handlers) :
    /\ w # l /\ handlers[w].id = handlers[l].id
    /\ handlers[w].decideOk /\ handlers[w].kind = "approved" /\ handlers[w].pc \in {"ack", "posting"}
    /\ ~handlers[l].decideOk /\ handlers[l].kind = "denied"
    /\ handlers[l].pc = "reply" /\ handlers[l].reply = "already approved"


\* ------------------------------------------------------------------------
\* Claims on the runner
\* ------------------------------------------------------------------------
\* the request lacks a signature header, or carries a digest that is not the
\* HMAC of its own timestamp and body under the configured secret
BadlySigned(req) ==
  \/ req.ts = ""
  \/ ~req.signature.present
  \/ req.signature.hex # Hmac(webhookSecret, req.ts \o "." \o req.body)

DispatchHandled == lastReq' # lastReq /\ lastReq'.kind = "dispatch"

\* C4: with a webhook secret configured, a POST /dispatch without timestamp or
\* signature header, or with a signature that is not HMAC(secret, ts.body), gets
\* 401 and changes nothing: no action starts, no run row is created.
C4_BadSignatureRejected ==
  [][ (DispatchHandled /\ webhookSecret # "" /\ BadlySigned(lastReq')) =>
        /\ lastReq'.code = 401
        /\ UNCHANGED <<runs, controllers, aborted, worker, disp, accepted>> ]_vars

\* a dispatch of a background task signed with another key was refused
C4_Witness ==
  /\ webhookSecret = "k1"
  /\ lastReq.kind = "dispatch" /\ lastReq.code = 401
  /\ lastReq.body = "background" /\ lastReq.ts # ""
  /\ lastReq.signature = SigHeader("sha256=", Hmac("k2", lastReq.ts \o "." \o lastReq.body))
  /\ accepted = 1 /\ \A r \in RunIds : runs[r].status = "none"

\* C5: a run row appears running (created queued and set running in the same
\* synchronous segment), may go from running to completed, failed or cancelled,
\* and never changes status after that, whatever the order of the worker's
\* writes and the cancel requests.
C5_RunStatusMonotone ==
  [][ \A r \in RunIds :
        \/ runs'[r].status = runs[r].status
        \/ runs[r].status = "none" /\ runs'[r].status \in {"queued", "running"}
        \/ runs[r].status = "queued" /\ runs'[r].status = "running"
        \/ runs[r].status = "running" /\ runs'[r].status \in Terminal ]_vars

\* the worker of a cancelled run has written its final status after the cancel
C5_Witness ==
  \E r \in RunIds :
    /\ runs[r].status = "cancelled" /\ r \in aborted
    /\ worker[r] = "done"
    /\ lastReq.kind = "cancel" /\ lastReq.run = r /\ lastReq.cancelled

\* C6: an accepted cancel of a run that was queued or running sets
\* cancelRequested, aborts the upstream call and leaves the run cancelled (or
\* with a worker that is still to write the final status).
C6_CancelCancelsEveryLiveRun ==
  (lastReq.kind = "cancel" /\ lastReq.code = 200 /\ lastReq.prior \in {"queued", "running"}) =>
    /\ runs[lastReq.run].cancelRequested
    /\ lastReq.run \in aborted
    /\ runs[lastReq.run].status = "cancelled" \/ worker[lastReq.run] = "awaiting"

ResultsPositional ==
    /\ Len(disp.results) = Len(disp.actions)
    /\ \A i \in 1..Len(disp.actions) :
         /\ disp.results[i] # NoResult
         /\ disp.results[i].tag = disp.actions[i].tag
         /\ disp.results[i].runId = disp.runOf[i]

\* C10: when a dispatch returns, results has the length of actions and
\* results[i] is the result of executing actions[i], whatever
\* DISPATCH_MAX_PARALLEL is set to.
C10_ResultsPositional ==
  disp.phase = "done" => ResultsPositional

\* C10 for settings that parse as a number: when a dispatch returns, results
\* has the length of actions and results[i] is the result of actions[i].
C10_PositionalForNumericSetting ==
  (disp.phase = "done" /\ ~maxParallel.nan) => ResultsPositional

\* a dispatch whose groups interleave with an ungrouped action returned after
\* two batches
C10_Witness ==
  /\ disp.phase = "done" /\ maxParallel = parseInt("2")
  /\ Len(disp.actions) = 4
  /\ disp.started = <<2, 1, 4, 3>>

\* ------------------------------------------------------------------------
\* Claims on the message loop
\* ------------------------------------------------------------------------
Fetchable(key) ==
  LET batch == getNewMessages(messages, DOMAIN registeredGroups, lastTimestamp)
  IN \E i \in 1..Len(batch) : MessageKey(batch[i]) = key

\* C7: a message whose processing raised is returned again by the next fetch
\* of the loop, the global watermark not having passed it.
C7_RaisedIsFetchedAgain ==
  \A key \in raised : Fetchable(key)

\* C8 as stated: every processMessage call that returns without error leaves
\* the chat's agent watermark at the message's timestamp, above its previous
\* value; a call that raises leaves it unchanged.
C8_EveryReturnMovesWatermark ==
  /\ lastProc.outcome \in {"ignored", "empty", "noResponse", "responded"} =>
       lastProc.after = lastProc.timestamp /\ lastProc.after > lastProc.before
  /\ lastProc.outcome = "raised" => lastProc.after = lastProc.before

\* C8: a processMessage call that obtained a planner response and returned
\* leaves the chat's agent watermark at the message's timestamp, above its
\* previous value; a call that raised, ignored the message, built an empty prompt
\* or got nothing from the planner leaves it unchanged.
C8_ResponseMovesWatermark ==
  /\ lastProc.outcome = "responded" =>
       /\ lastProc.after = lastProc.timestamp
       /\ lastProc.after > lastProc.before
       /\ lastProc.timestamp = lastTimestamp
  /\ lastProc.outcome \in {"ignored", "empty", "noResponse", "raised"} =>
       lastProc.after = lastProc.before

\* a second message of a chat was answered after the first one
C8_Witness ==
  /\ lastProc.outcome = "responded"
  /\ lastProc.before = 1 /\ lastProc.timestamp = 2
  /\ lastAgentTimestamp[lastProc.chat] = 2

\* C9: a message whose reply or approval prompt could not be delivered has
\* failed its processing step and is still after the global watermark.
C9_UnsentIsRetried ==
  \A key \in unsent : key \in raised /\ key[2] > lastTimestamp

\* ------------------------------------------------------------------------
\* Claims on the order of execution inside a dispatch
\* ------------------------------------------------------------------------
Ungrouped == {i \in 1..Len(disp.actions) : disp.actions[i].parallelGroup = ""}
Grouped == {i \in 1..Len(disp.actions) : disp.actions[i].parallelGroup # ""}
StartedSet == {disp.started[p] : p \in 1..Len(disp.started)}
Finished(i) == i \in StartedSet /\ i \notin disp.inflight

\* C11: the ungrouped actions of a dispatch run one at a time in declaration
\* order, and no grouped action starts before every ungrouped one has finished.
C11_UngroupedSerialFirst ==
  /\ \A u \in disp.inflight \cap Ungrouped : disp.inflight = {u}
  /\ \A u \in StartedSet \cap Ungrouped : \A v \in Ungrouped : v < u => Finished(v)
  /\ (StartedSet \cap Grouped # {}) => \A u \in Ungrouped : Finished(u)

\* two ungrouped actions declared around a grouped one have finished, in that
\* order, and the grouped one is running
C11_Witness ==
  /\ disp.phase = "run"
  /\ disp.started = <<1, 3, 2>>
  /\ disp.inflight = {2}
  /\ Ungrouped = {1, 3}

Violates(action) ==
  \/ action.type = "ssh" /\ ~isAllowedReadonlyCommand(action.arg)
  \/ action.type = "web_fetch" /\ ~isAllowedWebUrl(action.arg)
  \/ action.type = "web_fetch" /\ action.mode = "browser" /\ ~action.requiresApproval

ViolatingIn(actions) == {i \in 1..Len(actions) : Violates(actions[i])}
WithStatus(results, status) == {k \in 1..Len(results) : results[k].status = status}

\* C14: every action that was ever in the body of a POST to the runner is an
\* ssh command of the read-only allowlist or a web_fetch whose URL passes the
\* URL filter and which, in browser mode, has requiresApproval true; an action
\* breaking one of the filters is never in a POST and is answered by a result
\* of status blocked (an ssh one by a blocked result naming its command).
C14_OnlyFilteredActionsDispatched ==
  /\ \A a \in sentActions :
        /\ a.type \in {"ssh", "web_fetch"}
        /\ ~Violates(a)
  /\ exec.pc # "idle" =>
        /\ \A i \in ViolatingIn(exec.actions) :
              /\ exec.actions[i] \notin sentActions
              /\ \A k \in 1..Len(exec.dispatchable) : exec.dispatchable[k] # exec.actions[i]
              /\ exec.actions[i].type = "ssh" =>
                    \E k \in WithStatus(exec.results, "blocked") :
                      exec.results[k].command = exec.actions[i].arg
        /\ Cardinality(WithStatus(exec.results, "blocked"))
             >= Cardinality(ViolatingIn(exec.actions))

C14_Witness ==
  /\ exec.pc = "returned" /\ exec.posted
  /\ exec.actions = <<WebMetadata, SshUptime>>
  /\ sentActions = {SshUptime}
  /\ exec.results[1].status = "blocked"

\* an executable action that breaks no filter
PassesFilters(action) == action.type \in {"ssh", "web_fetch"} /\ ~Violates(action)
Passing(actions) == SelectSeq(actions, PassesFilters)

\* the call has come to its POST or to its return
ExecutorActed == exec.pc # "idle"

\* C15 as stated: whenever some actions of the approved proposal break a
\* filter, exactly as many results are blocked as actions break a filter, and
\* every action that breaks none is in the body of the POST of this approval.
C15_OthersAlwaysSent ==
  (ExecutorActed /\ ViolatingIn(exec.actions) # {}) =>
     /\ Cardinality(WithStatus(exec.results, "blocked"))
          = Cardinality(ViolatingIn(exec.actions))
     /\ \A i \in 1..Len(exec.actions) :
           PassesFilters(exec.actions[i]) => exec.actions[i] \in sentActions

\* C15 amended: with the local-execution flag off, exactly the actions
\* breaking a filter are blocked; the executable actions that break none are
\* all sent, in declaration order, in the one POST of this approval when
\* execution is enabled and the webhook URL is set, and are all reported
\* skipped without a POST otherwise.  With the local-execution flag on every
\* action is blocked and nothing is sent.
C15_OthersProceed ==
  (ExecutorActed /\ ViolatingIn(exec.actions) # {}) =>
     IF execConfig.local
       THEN /\ WithStatus(exec.results, "blocked") = 1..Len(exec.actions)
            /\ sentActions = {}
       ELSE /\ Cardinality(WithStatus(exec.results, "blocked"))
                 = Cardinality(ViolatingIn(exec.actions))
            /\ IF execConfig.enabled /\ execConfig.url
                 THEN /\ Passing(exec.actions) # <<>> =>
                            /\ exec.posted
                            /\ exec.dispatchable = Passing(exec.actions)
                      /\ sentActions =
                           {exec.actions[i] : i \in {j \in 1..Len(exec.actions) :
                                                       PassesFilters(exec.actions[j])}}
                 ELSE /\ ~exec.posted
                      /\ sentActions = {}
                      /\ Cardinality(WithStatus(exec.results, "skipped"))
                           = Len(exec.actions) - Cardinality(ViolatingIn(exec.actions))

C15_Witness ==
  /\ exec.pc = "posting"
  /\ exec.actions = <<SshMeta, WebOk>>
  /\ exec.dispatchable = <<WebOk>>
  /\ exec.results = <<CoreResult("ssh", "uptime; reboot", "blocked",
                                  "Command blocked by readonly allowlist policy.")>>

\* the results of the actions that were in the POST: the last ones of the list
DispatchedResults ==
  {exec.results[k] :
     k \in (Len(exec.results) - Len(exec.dispatchable) + 1)..Len(exec.results)}

\* the fetch was rejected (network error, timeout) or answered outside 2xx
PostFailed ==
  \/ exec.outcome.kind \in {"network error", "timeout"}
  \/ exec.outcome.kind = "response" /\ ~(exec.outcome.status \in 200..299)

\* some result of the runner's answer carries an exit code other than zero
SomeNonZeroExit ==
  \E i \in 1..Len(exec.outcome.results) :
    exec.outcome.results[i].hasExitCode /\ exec.outcome.results[i].exitCode # 0

AnsweredLast(k, status) ==
  LET r == exec.results[Len(exec.results) - Len(Passing(exec.actions)) + k]
  IN /\ r.actionType = Passing(exec.actions)[k].type
     /\ r.command = Passing(exec.actions)[k].arg
     /\ r.status = status

\* C17 as stated: with enable_approved_execution false, an approved proposal
\* causes no POST and every executable action that breaks no filter is
\* reported skipped.
C17_DisabledSkipsEveryExecutable ==
  (ExecutorActed /\ ~execConfig.enabled) =>
     /\ ~exec.posted /\ sentActions = {} /\ exec.pc = "returned"
     /\ Len(exec.results) >= Len(Passing(exec.actions))
     /\ \A k \in 1..Len(Passing(exec.actions)) : AnsweredLast(k, "skipped")

\* C17 amended: with enable_approved_execution false an approved proposal
\* causes no POST; with the local-execution flag off, every executable action
\* that breaks no filter and every action of a non-executable type is reported
\* skipped, while an action breaking a filter is still reported blocked; with
\* the local-execution flag on every action is reported blocked.
C17_DisabledSendsNothing ==
  (ExecutorActed /\ ~execConfig.enabled) =>
     /\ ~exec.posted /\ sentActions = {} /\ exec.pc = "returned"
     /\ Len(exec.results) = Len(exec.actions)
     /\ IF execConfig.local
          THEN WithStatus(exec.results, "blocked") = 1..Len(exec.actions)
          ELSE /\ \A k \in 1..Len(Passing(exec.actions)) : AnsweredLast(k, "skipped")
               /\ Cardinality(WithStatus(exec.results, "blocked"))
                    = Cardinality(ViolatingIn(exec.actions))
               /\ Cardinality(WithStatus(exec.results, "skipped"))
                    = Len(exec.actions) - Cardinality(ViolatingIn(exec.actions))

C17_Witness ==
  /\ execConfig = [enabled |-> FALSE, local |-> FALSE, url |-> TRUE]
  /\ exec.pc = "returned"
  /\ exec.actions = <<SshUptime, SshReboot>>
  /\ exec.results[1].status = "blocked" /\ exec.results[1].command = "reboot"
  /\ exec.results[2].status = "skipped" /\ exec.results[2].command = "uptime"

\* C18: with execution enabled and the runner configured, every opencode_serve
\* action of an approved proposal is in the body of the POST of that approval,
\* and the result reported for it comes from the runner (it is not a result of
\* status skipped or blocked made up by the core).
C18_BackgroundOpencodeDispatched ==
  (ExecutorActed /\ execConfig.enabled /\ execConfig.url /\ ~execConfig.local) =>
     \A i \in 1..Len(exec.actions) :
       exec.actions[i].type = "opencode_serve" =>
         /\ exec.actions[i] \in sentActions
         /\ exec.pc = "returned" =>
               \E k \in 1..Len(exec.results) :
                 /\ exec.results[k].actionType = "opencode_serve"
                 /\ exec.results[k].status \in {"executed", "failed"}

\* the approved background opencode_serve action is answered by the core alone
C18_Witness ==
  /\ execConfig = [enabled |-> TRUE, local |-> FALSE, url |-> TRUE]
  /\ exec.pc = "returned"
  /\ exec.actions = <<OpencodeBackground>>
  /\ exec.results = <<CoreResult("opencode_serve", "", "skipped",
                                  "not executable by external runner")>>
  /\ ~exec.posted /\ sentActions = {}

\* ------------------------------------------------------------------------
\* Claims on background runs and the run API of the runner
\* ------------------------------------------------------------------------
\* the result executeDispatchAction returned for action i of the dispatch
ResultOf(i) ==
  IF disp.results[i] # NoResult THEN disp.results[i]
  ELSE disp.batchResults[CHOOSE k \in 1..Len(disp.batch) : disp.batch[k] = i]

\* background actions of the dispatch whose result has been produced
Announcing ==
  {i \in 1..Len(disp.actions) :
     IsBackground(disp.actions[i]) /\ i \in StartedSet /\ i \notin disp.inflight}

RunApiRequest == GetRequest \/ ListRequest \/ CancelRequest

\* C20: a request to GET /runs, GET /runs/{id} or POST /runs/{id}/cancel whose
\* x-ops-runner-secret header is not the shared secret is answered 401, the
\* answer shows no run row, and no run row, abort controller or abort signal
\* changes.
C20_RunApiNeedsSecret ==
  [][(RunApiRequest /\ lastReq'.kind \in {"get", "list", "cancel"}
        /\ lastReq'.header # SHARED_SECRET) =>
       /\ lastReq'.code = 401
       /\ lastReq'.revealed = {}
       /\ UNCHANGED <<runs, controllers, aborted, worker>>]_vars

\* a cancel with a guessed secret was refused while the run goes on
C20_Witness ==
  \E r \in RunIds :
    /\ lastReq.kind = "cancel" /\ lastReq.run = r /\ lastReq.header = "guess"
    /\ lastReq.code = 401
    /\ runs[r].status = "running" /\ ~runs[r].cancelRequested
    /\ r \in controllers /\ r \notin aborted

\* ------------------------------------------------------------------------
\* Claims on the IPC watcher
\* ------------------------------------------------------------------------
\* C21: when the watcher handles a file, a text is sent to a chat only if the
\* file lies under <source>/messages, names that chat, and <source> is the
\* main folder or the folder of the group registered for that chat; a file
\* under tasks, and a message file of any other source, sends nothing.
C21_IpcMessageOnlyFromOwnerOrMain ==
  [][IpcFileProcessed =>
       \A m \in ipc'.sent \ ipc.sent :
         /\ ipc'.last.dir = "messages"
         /\ m.source = ipc'.last.source
         /\ m.chatJid = ipc'.last.data.chatJid
         /\ \/ m.source = MAIN_GROUP_FOLDER
            \/ groups[m.chatJid] # "" /\ groups[m.chatJid] = m.source]_vars

\* the team folder has sent to its own chat, and its file for the main chat
\* was unlinked without anything being sent there
C21_Witness ==
  /\ [source |-> "team", dir |-> "messages", data |-> MessageData("c1", "hi")] \in ipc.deleted
  /\ ipc.sent = {[chatJid |-> "c2", text |-> "hi", source |-> "team"]}

\* C22: when the watcher handles a task file of a source other than the main
\* folder, no group is registered, no group refresh is triggered, a task row
\* that appears belongs to the source folder, and a task row that changes or
\* disappears belonged to the source folder.
C22_NonMainTaskFileStaysInItsFolder ==
  [][(IpcFileProcessed /\ ipc'.last.source # MAIN_GROUP_FOLDER) =>
       /\ groups' = groups
       /\ ipc'.refreshes = ipc.refreshes
       /\ \A id \in TaskIds :
             tasks'[id] # tasks[id] =>
               IF tasks[id].status = "none"
                 THEN tasks'[id].group_folder = ipc'.last.source
                 ELSE tasks[id].group_folder = ipc'.last.source]_vars

\* the team folder asked to pause the task of main and its own task: only its
\* own task is paused
C22_Witness ==
  /\ [source |-> "team", dir |-> "tasks", data |-> TaskData("pause_task", 1)] \in ipc.deleted
  /\ [source |-> "team", dir |-> "tasks", data |-> TaskData("pause_task", 2)] \in ipc.deleted
  /\ tasks[1].status = "active" /\ tasks[1].group_folder = MAIN_GROUP_FOLDER
  /\ tasks[2].status = "paused" /\ tasks[2].group_folder = "team"

\* the texts that are a decimal integer from the first character to the last
DecimalIntegers == {"-1", "0", "1", "2", "4", "20", "300000"}

\* the schedule is one the three types take: a cron expression that parses, a
\* positive integer of milliseconds, or an ISO-8601 instant
ValidSchedule(scheduleType, scheduleValue) ==
  \/ scheduleType = "cron" /\ CronParses(scheduleValue)
  \/ scheduleType = "interval" /\ scheduleValue \in DecimalIntegers
                               /\ parseInt(scheduleValue).n > 0
  \/ scheduleType = "once" /\ scheduleValue = "2026-02-01T15:30:00.000Z"

\* the request in the file fails the validation of its type: a type the
\* directory does not take, a required field that is absent, or a schedule
\* that is not valid
FailsValidation(file) ==
  LET data == file.data IN
  /\ data.json = "object"
  /\ \/ (file.dir = "messages"
          /\ (data.type # "message" \/ data.chatJid = "" \/ data.text = ""))
     \/ (file.dir = "tasks"
          /\ data.type \notin {"schedule_task", "pause_task", "resume_task",
                                "cancel_task", "refresh_groups", "register_group"})
     \/ (file.dir = "tasks" /\ data.type = "schedule_task"
          /\ (\/ data.prompt = ""
              \/ data.groupFolder = ""
              \/ ~ValidSchedule(data.schedule_type, data.schedule_value)))
     \/ (file.dir = "tasks"
          /\ data.type \in {"pause_task", "resume_task", "cancel_task"}
          /\ data.taskId = 0)
     \/ (file.dir = "tasks" /\ data.type = "register_group"
          /\ (data.jid = "" \/ data.folder = ""))

\* C23: a file whose content is not valid JSON, or whose request fails the
\* validation of its type, is never unlinked: once handled it lies under
\* errors/ with its source as prefix, and a file under errors/ is never taken
\* up by the watcher again.
C23_MalformedIsQuarantined ==
  /\ \A file \in ipc.deleted : file.data.json = "object" /\ ~FailsValidation(file)
  /\ \A file \in ipc.errors : file \notin ipc.files

\* a schedule_task request with interval 0 was logged and unlinked; nothing
\* is under errors/
C23_Witness ==
  /\ [source |-> "team", dir |-> "tasks", data |-> ScheduleData("team", "interval", "0")]
       \in ipc.deleted
  /\ ipc.errors = {}
  /\ tasks[3].status = "none"

\* C24: every row of the task table has a valid schedule: a cron expression
\* that parses, a positive integer of milliseconds, or an ISO-8601 instant; a
\* request with any other schedule type or value creates no row.
C24_EveryTaskHasValidSchedule ==
  \A id \in TaskIds :
    tasks[id].status \notin {"none", "deleted"} =>
      ValidSchedule(tasks[id].schedule_type, tasks[id].schedule_value)

\* the request with the interval 5min was handled and its row is in the table
C24_Witness ==
  /\ [source |-> "team", dir |-> "tasks", data |-> ScheduleData("team", "interval", "5min")]
       \in ipc.deleted
  /\ tasks[3] = [group_folder |-> "team", chat_jid |-> "c2", schedule_type |-> "interval",
                 schedule_value |-> "5min", status |-> "active"]

\* the same for a schedule type that is none of the three
C24_RowOfUnknownType ==
  \E id \in TaskIds : tasks[id].status = "active" /\ tasks[id].schedule_type = "weekly"

\* ------------------------------------------------------------------------
\* Claims on the planner turn
\* ------------------------------------------------------------------------
TurnEnded == turn.pc = "idle" /\ turn.n > 0
SentToChat(t) == {t.texts[i] : i \in 1..Len(t.texts)}

\* C25: when the planner invocation of a turn failed (the container agent
\* ended with status error or without a result, and the direct agent gave no
\* answer either), the chat has received the fallback reply 'I could not
\* generate a complete answer. Please retry.' by the end of the turn.
C25_FailedPlannerGetsFallbackReply ==
  (TurnEnded /\ turn.plannerFailed) => KNOWN_FALLBACK \in SentToChat(turn)

\* the container agent ended with status error, the direct agent is not
\* configured, and the turn ended with nothing sent to the chat
C25_Witness ==
  /\ TurnEnded
  /\ turn.path = "error"
  /\ turn.plannerFailed
  /\ ~turn.directConfigured
  /\ turn.response = "null"
  /\ turn.texts = <<>>

\* what holds of a failed invocation that still yields a response: the
\* fallback reply is sent unless an approval prompt is
C25_FallbackReplyOrPrompt ==
  (TurnEnded /\ turn.plannerFailed /\ turn.response = "some") =>
     (KNOWN_FALLBACK \in SentToChat(turn)) # (turn.prompts = 1)

\* C26: a turn whose planner output held no valid plan and whose repair
\* failed as well ends with no proposal enqueued and no approval prompt: the
\* user receives the textual reply only, whatever the user's message was.
C26_FailedRepairEnqueuesNothing ==
  (TurnEnded /\ turn.repairFailed) =>
     /\ turn.proposal = 0
     /\ turn.prompts = 0

\* the user named a domain, the planner answered 'done' without a plan and
\* the repair failed: a web_fetch proposal is in the journal, the approval
\* prompt was sent and the reply was not
C26_Witness ==
  /\ TurnEnded
  /\ turn.n = 1
  /\ turn.content = "@Andy see example.com"
  /\ turn.raw = [text |-> "done", block |-> NoBlock]
  /\ turn.repairFailed
  /\ turn.proposal = 1
  /\ Len(queue) = 1 /\ hasWebFetch(queue[1].actions)
  /\ turn.texts = <<"Approval needed">>

\* what holds: as long as no action was ever pushed onto the shared empty
\* plan, a failed repair enqueues nothing
C26_NothingEnqueuedWithoutInjection ==
  (TurnEnded /\ turn.repairFailed /\ emptyPlan = <<>>) =>
     (turn.proposal = 0 /\ turn.prompts = 0)

\* a later turn whose message names no URL inherits the pushed action
C26_LaterTurnInherits ==
  /\ TurnEnded
  /\ turn.n = 2
  /\ turn.content = "hello"
  /\ turn.repairFailed
  /\ turn.proposal = 2

\* C27: in one turn the repair prompt is sent to the planner at most once,
\* whether the repair succeeds, answers without a plan, or its request fails.
C27_RepairAskedAtMostOnce == turn.repairPrompts <= 1

\* the planner answered without a plan, the repair request to the container
\* agent failed, and the repair prompt went out a second time
C27_Witness ==
  /\ turn.pc = "directRepair"
  /\ turn.path = "success"
  /\ turn.directConfigured
  /\ turn.repairPrompts = 2

\* what holds: never more than two repair prompts in a turn, and one at most
\* when the direct agent is not configured
C27_RepairAskedAtMostTwice ==
  turn.repairPrompts <= (IF turn.directConfigured THEN 2 ELSE 1)

\* ------------------------------------------------------------------------
\* Claims on the documents on disk
\* ------------------------------------------------------------------------
\* C28: the journal, the watermark document and the session map are each at
\* every moment a complete document on disk, and a core that starts again
\* after being killed in the middle of a write reads a complete document
\* (the previous or the new one), never an empty or partial file.
C28_DocumentsNeverTorn ==
  \A path \in DiskFiles :
    /\ disk.files[path] = "whole"
    /\ disk.loaded[path] = "document"

\* the core was killed while writing a journal of one record, the file holds
\* the head of the text, and the core that started again read it as []
C28_Witness ==
  /\ disk.core = "up"
  /\ disk.last.op = "start"
  /\ Len(queue) = 1
  /\ disk.files[ACTION_QUEUE_PATH] = "partial"
  /\ disk.loaded[ACTION_QUEUE_PATH] = "fallback"

\* the journal after a step holds every record it held before, in place, with
\* at most one of them changed, and that one only from proposed to a decision;
\* a record added is one, at the end, with status proposed
AppendOnlyStep(before, after) ==
  /\ Len(after) \in {Len(before), Len(before) + 1}
  /\ \A i \in 1..Len(before) :
        \/ after[i] = before[i]
        \/ /\ before[i].status = "proposed"
           /\ after[i].status \in {"approved", "denied"}
           /\ after[i] = [before[i] EXCEPT !.status = after[i].status,
                                           !.decidedAt = after[i].decidedAt,
                                           !.decisionReason = after[i].decisionReason]
  /\ Cardinality({i \in 1..Len(before) : after[i] # before[i]}) <= 1
  /\ Len(after) = Len(before) + 1 =>
        /\ after[Len(after)].status = "proposed"
        /\ \A i \in 1..Len(before) : after[i] = before[i]

\* C29: the journal is append-only: every step of enqueue and decide leaves
\* each existing record present and, but for the one record a decide decides,
\* unchanged; enqueue adds exactly one record with status proposed; no step
\* removes a record.
C29_JournalAppendOnly == [][AppendOnlyStep(queue, queue')]_vars

\* the file held two records in full, the read of enqueue threw, and the
\* journal now holds the new record alone
C29_Witness ==
  /\ disk.last.op = "enqueue"
  /\ ~disk.last.read
  /\ disk.last.fileBefore = "whole"
  /\ Len(disk.last.before) = 2
  /\ queue = <<disk.last.record>>

\* what holds: a step whose read gave the array of the file is append-only
C29_AppendOnlyWhenReadBack ==
  [][(disk'.last.read /\ disk'.last.fileBefore = "whole") =>
        AppendOnlyStep(queue, queue')]_vars

\* ------------------------------------------------------------------------
\* Claims on proposals without actions
\* ------------------------------------------------------------------------
\* C30: every record of the journal has at least one action; a turn whose
\* plan has no action after the injection leaves the journal as it was, gets
\* null from enqueue, and sends no approval prompt.
C30_NoProposalWithoutActions ==
  /\ [](\A i \in 1..Len(queue) : Len(queue[i].actions) >= 1)
  /\ [][(turn.pc = "respond" /\ turn.response = "some" /\ turn'.pc = "idle"
          /\ turn'.actions = <<>>) =>
           /\ queue' = queue
           /\ turn'.enqueueNull
           /\ turn'.proposal = 0
           /\ turn'.prompts = 0]_vars

\* the second turn ended with a valid plan of no actions: the reply was sent,
\* nothing was enqueued, and the journal still holds the first turn's proposal
C30_Witness ==
  /\ TurnEnded
  /\ turn.n = 2
  /\ turn.hasPlan
  /\ turn.actions = <<>>
  /\ turn.enqueueNull
  /\ turn.texts = <<"done">>
  /\ Len(queue) = 1
  /\ Len(queue[1].actions) = 1

\* ------------------------------------------------------------------------
\* Claims on the plan contract
\* ------------------------------------------------------------------------
\* C31: for every schema-valid plan P, execution hints included,
\* parsePlanFromText(formatPlanBlock(P)) is a plan equal to P, with no errors.
C31_ParseOfFormatIsIdentity ==
  contract.pc = "roundtrip" =>
    /\ contract.result.plan
    /\ contract.result.actions = contract.plan
    /\ contract.result.errors = 0

\* the plan with one obsidian_write whose patch holds a fenced snippet was
\* serialized and parsed: no plan came back
C31_Witness ==
  /\ contract.pc = "roundtrip"
  /\ contract.plan = <<PlanNoteWithCode>>
  /\ contract.result = NoParse

\* the plan with executionMode foreground comes back without the hint
C31_ForegroundDropped ==
  /\ contract.pc = "roundtrip"
  /\ contract.plan = <<PlanOpencodeForeground>>
  /\ contract.result.plan
  /\ contract.result.actions = <<[PlanOpencodeForeground EXCEPT !.executionMode = ""]>>

\* what holds: a plan none of whose texts holds three backticks and none of
\* whose actions says foreground comes back equal
C31_PlainPlansRoundTrip ==
  (/\ contract.pc = "roundtrip"
   /\ \A i \in 1..Len(contract.plan) :
         /\ contract.plan[i].executionMode # "foreground"
         /\ \A k \in ActionKeySet : ~HasFence(contract.plan[i][k])) =>
    /\ contract.result.plan
    /\ contract.result.actions = contract.plan
    /\ contract.result.errors = 0

\* the web_fetch object that was written and the action it was parsed to
ParsedWebFetch == contract.pc = "parsed" /\ contract.result.plan
Supplied == contract.plan[1].requiresApproval
ParsedApproval == contract.result.actions[1].requiresApproval

\* C32: the requiresApproval of a parsed web_fetch action is the boolean that
\* was supplied, and true when none was supplied, for mode browser and for
\* mode http alike.
C32_ApprovalSuppliedOrTrue ==
  ParsedWebFetch =>
    ParsedApproval = (IF Supplied \in {"true", "false"} THEN Supplied ELSE "true")

\* a web_fetch without mode and without requiresApproval was parsed to an
\* http action that requires no approval
C32_Witness ==
  /\ ParsedWebFetch
  /\ contract.plan[1].mode = ""
  /\ Supplied = ""
  /\ contract.result.actions[1].mode = "http"
  /\ ParsedApproval = "false"

\* what holds: a supplied boolean is kept, and without one the value is true
\* for mode browser and false for mode http
C32_ApprovalSuppliedOrBrowser ==
  ParsedWebFetch =>
    ParsedApproval = (IF Supplied \in {"true", "false"} THEN Supplied
                      ELSE IF contract.result.actions[1].mode = "browser" THEN "true"
                      ELSE "false")

\* ------------------------------------------------------------------------
\* Claims on the safety filters
\* ------------------------------------------------------------------------
\* the commands of the closed allowlist, described by their shape: uptime
\* alone; df followed by flags and at most one path at the end; ls followed
\* by at most one flag and then a path; the parts separated by white space
Spaced(cmd, parts) ==
  /\ \A i \in 2..Len(cmd) : cmd[i] \in CmdSpaces \cup parts
  /\ cmd[Len(cmd)] \notin CmdSpaces
  /\ \A i \in 2..Len(cmd) : cmd[i] \in parts => cmd[i - 1] \in CmdSpaces

InAllowlist(cmd) ==
  /\ cmd # <<>>
  /\ \/ cmd = <<"uptime">>
     \/ /\ cmd[1] = "df"
        /\ Spaced(cmd, CmdFlags \cup CmdPaths)
        /\ \A i \in 2..Len(cmd) : cmd[i] \in CmdPaths => i = Len(cmd)
     \/ /\ cmd[1] = "ls"
        /\ Spaced(cmd, CmdFlags \cup CmdPaths)
        /\ cmd[Len(cmd)] \in CmdPaths
        /\ \A i \in 2..Len(cmd) : cmd[i] \in CmdPaths => i = Len(cmd)
        /\ Cardinality({i \in 2..Len(cmd) : cmd[i] \in CmdFlags}) <= 1

\* C33: a command is accepted by isAllowedReadonlyCommand exactly when, after
\* trimming, it is a command of the closed read-only allowlist; an accepted
\* command holds no shell metacharacter; every other command is rejected.
C33_AcceptedIffAllowlisted ==
  filter.kind = "ssh" =>
    /\ filter.accepted <=> InAllowlist(TrimText(filter.cmd))
    /\ filter.accepted => \A i \in 1..Len(filter.cmd) : filter.cmd[i] \notin CmdMeta

\* df -h /data between white space was accepted
C33_Witness ==
  /\ filter.kind = "ssh"
  /\ filter.cmd = <<" ", "df", " ", "-h">>
  /\ filter.accepted

\* uptime followed by a second command was rejected
C33_Rejected ==
  /\ filter.kind = "ssh"
  /\ filter.cmd = <<"uptime", ";", "rm">>
  /\ ~filter.accepted

\* the address a sample url leads to
UrlScheme(url) ==
  IF url = "ftp://example.com/" THEN "ftp"
  ELSE IF url = "not a url" THEN ""
  ELSE IF url = "https://example.com/" THEN "https" ELSE "http"

UrlTarget(url) ==
  CASE url \in {"https://example.com/", "ftp://example.com/", "http://1.1.1.1/",
                "http://172.32.0.1/", "http://fcbarcelona.com/",
                "http://[2606:4700::1111]/"} -> "public"
    [] url \in {"http://localhost:8080/", "http://printer.local/",
                "http://db.internal/"} -> "local name"
    [] url \in {"http://10.0.0.5/", "http://127.0.0.1/", "http://2130706433/",
                "http://0.0.0.0/", "http://169.254.10.1/", "http://172.16.0.1/",
                "http://192.168.1.10/status",
                "http://169.254.169.254/latest/meta-data"} -> "private IPv4"
    [] url = "http://[::1]/" -> "IPv6 loopback"
    [] url = "http://[FD00::1]/" -> "IPv6 unique-local"
    [] url = "http://[fe80::1]/" -> "IPv6 link-local"
    [] OTHER -> "none"

\* C34: every url the web-fetch filter accepts has scheme http or https and
\* leads to a public host: not a local name, not a private IPv4 range, and
\* not an IPv6 loopback, link-local or unique-local address, bracketed
\* literals included.
C34_AcceptedUrlIsPublic ==
  (filter.kind = "web_fetch" /\ filter.accepted) =>
    /\ UrlScheme(filter.url) \in {"http", "https"}
    /\ UrlTarget(filter.url) = "public"

\* the url of the IPv6 loopback address was accepted
C34_Witness ==
  /\ filter.kind = "web_fetch"
  /\ filter.url = "http://[::1]/"
  /\ filter.accepted

\* what holds: an accepted url has scheme http or https and leads neither to
\* a local name nor to a private IPv4 range
C34_AcceptedUrlIsNoPrivateIpv4 ==
  (filter.kind = "web_fetch" /\ filter.accepted) =>
    /\ UrlScheme(filter.url) \in {"http", "https"}
    /\ UrlTarget(filter.url) \notin {"local name", "private IPv4", "none"}

\* ------------------------------------------------------------------------
\* Claims on the dispatch signature
\* ------------------------------------------------------------------------
\* the request carries the headers the core computes for its timestamp and
\* body under the secret the runner is configured with
SignedByCore(req) ==
  /\ req.ts # ""
  /\ req.signature = CoreSignature(req.ts, req.body, webhookSecret)

\* C35: the signature is a function of timestamp, body and secret alone, the
\* same in the core and in the runner: a dispatch carrying the core's
\* signature under the shared secret is never refused with 401, because the
\* value the runner recomputes from the received timestamp header and raw
\* body equals the one the core sent.
C35_CoreSignatureAccepted ==
  /\ [](\A ts \in Timestamps, body \in Bodies, secret \in {"k1", "k2"} :
          buildSignature(ts, body, secret) = buildWebhookSignature(ts, body, secret))
  /\ [][ (DispatchHandled /\ webhookSecret # "" /\ SignedByCore(lastReq')) =>
          lastReq'.code # 401 ]_vars

\* a dispatch signed by the core was accepted by the runner holding the secret
C35_Witness ==
  /\ webhookSecret = "k1"
  /\ lastReq.kind = "dispatch" /\ lastReq.code = 200
  /\ lastReq.body = "serial" /\ SignedByCore(lastReq)

\* ------------------------------------------------------------------------
\* Claims on the actions of a proposal
\* ------------------------------------------------------------------------
\* processMessage enqueues a proposal
TurnEnqueues ==
  /\ turn.pc = "respond" /\ turn'.pc = "idle"
  /\ Len(queue') = Len(queue) + 1

\* the actions are the ones parsed in turn t, followed by at most one
\* web_fetch synthesized from the user message of turn t
FromThisTurn(actions, t) ==
  LET synthesized == buildFallbackWebFetchAction(Trim(t.content)) IN
  \/ actions = t.actions
  \/ synthesized # NoAction /\ actions = Append(t.actions, synthesized)

\* C36: the actions of every enqueued proposal are the actions parsed in
\* that turn plus at most one web_fetch synthesized from that turn's user
\* message; the shared empty plan never gains an action, and no action of an
\* earlier turn appears in a later proposal.
C36_ProposalActionsFromOwnTurn ==
  /\ [](emptyPlan = <<>>)
  /\ [][ TurnEnqueues => FromThisTurn(queue'[Len(queue')].actions, turn) ]_vars

\* the second turn's message names no url and its planner gave no plan, yet
\* a proposal with the first turn's web_fetch was enqueued for it
C36_Witness ==
  /\ turn.pc = "idle" /\ turn.n = 2
  /\ turn.content = "hello"
  /\ ~turn.hasPlan
  /\ emptyPlan # <<>>
  /\ Len(queue) = 2
  /\ turn.proposal = queue[2].id
  /\ hasWebFetch(queue[2].actions)

\* what holds: a proposal enqueued in a turn whose planner gave a valid plan
\* has that plan's actions plus at most one web_fetch synthesized from the
\* turn's message
C36_ParsedPlanActionsFromOwnTurn ==
  [][ (TurnEnqueues /\ turn.hasPlan) =>
        FromThisTurn(queue'[Len(queue')].actions, turn) ]_vars

\* ------------------------------------------------------------------------
\* Claims on the results of executeApprovedActions
\* ------------------------------------------------------------------------
\* the result is about the action: its type, and its command or url when the
\* result names one
Describes(result, action) ==
  /\ result.actionType = action.type
  /\ result.command \in {"", action.arg}

\* C37: executeApprovedActions returns exactly one result per input action
\* and the i-th result describes the i-th action, also when blocked, skipped
\* and dispatched actions are mixed in one call.
C37_ResultsInInputOrder ==
  exec.pc = "returned" =>
    /\ Len(exec.results) = Len(exec.actions)
    /\ \A i \in 1..Len(exec.actions) : Describes(exec.results[i], exec.actions[i])

\* uptime then reboot: the first result is the refusal of reboot, the second
\* the execution of uptime
C37_Witness ==
  /\ exec.pc = "returned"
  /\ exec.actions = <<SshUptime, SshReboot>>
  /\ exec.results[1].status = "blocked" /\ exec.results[1].command = "reboot"
  /\ exec.results[2].status = "executed" /\ exec.results[2].command = "uptime"

\* what holds: one result per action; without the local flag the results of
\* the actions that are not dispatchable come first, in input order, and
\* those of the dispatchable actions follow, in input order
C37_ResultsFilteredThenDispatched ==
  exec.pc = "returned" =>
    LET kept == SelectSeq(exec.actions, NotDispatchable)
        sent == SelectSeq(exec.actions, IsDispatchable)
        order == IF execConfig.local THEN exec.actions ELSE kept \o sent
    IN /\ Len(exec.results) = Len(exec.actions)
       /\ \A i \in 1..Len(order) : Describes(exec.results[i], order[i])

\* ------------------------------------------------------------------------
\* Claims on the planner prompts
\* ------------------------------------------------------------------------
\* C38: as long as no step has failed, every stored message of a registered
\* chat is in the prompt of at most one planner invocation, also when
\* several messages of one chat arrive within one polling batch.
C38_MessagePromptedAtMostOnce ==
  ~prompted.failed => prompted.again = {}

\* two messages of the main chat were fetched in one batch; the prompt for
\* the first held both, and the prompt for the second holds the second again
C38_Witness ==
  /\ ~prompted.failed
  /\ Len(messages) = 2
  /\ messages[1].chat = messages[2].chat
  /\ loop.pc = "planning" /\ loop.i = 2 /\ Len(loop.batch) = 2
  /\ prompted.again = {MessageKey(messages[2])}

\* what holds: without a failed step, the message a processMessage call is
\* made for is in no earlier prompt when it is the only new message of its
\* chat in the batch
C38_SingleMessagePromptedOnce ==
  (~prompted.failed
     /\ \A i, j \in 1..Len(messages) : i # j => messages[i].chat # messages[j].chat)
    => prompted.again = {}

\* ------------------------------------------------------------------------
\* Claims on the chat of a decision
\* ------------------------------------------------------------------------
\* C39: an approve or deny issued in a chat takes effect only on a proposal
\* of that chat: whenever a record of the journal is decided, the handler
\* that decided it runs for the chat the record was enqueued for.
C39_DecidedOnlyFromOwnChat ==
  [][ \A i \in 1..Len(queue) :
        queue'[i].status # queue[i].status =>
          /\ Len(handlers') = Len(handlers) + 1
          /\ handlers'[Len(handlers')].chat = queue[i].chatJid ]_vars

\* a proposal of chat c1 was approved from chat c2 and goes on to execution
C39_Witness ==
  /\ Len(queue) >= 1
  /\ queue[1].chatJid = "c1" /\ queue[1].status = "approved"
  /\ \E h \in 1..Len(handlers) :
       /\ handlers[h].chat = "c2" /\ handlers[h].id = queue[1].id
       /\ handlers[h].kind = "approved" /\ handlers[h].decideOk
       /\ handlers[h].pc = "ack"

\* what holds: a record is decided only by a handler that was given its id
C39_DecidedOnlyById ==
  [][ \A i \in 1..Len(queue) :
        queue'[i].status # queue[i].status =>
          /\ Len(handlers') = Len(handlers) + 1
          /\ handlers'[Len(handlers')].id = queue[i].id
          /\ handlers'[Len(handlers')].kind = queue'[i].status ]_vars

\* ------------------------------------------------------------------------
\* Claims on the task tools
\* ------------------------------------------------------------------------
\* the status a request of the type leaves the task with
RequestedStatus(type) ==
  CASE type = "pause_task" -> "paused"
    [] type = "resume_task" -> "active"
    [] type = "cancel_task" -> "deleted"

\* the file was written by a task tool for a task of the group it runs for
OwnTaskRequest(file) ==
  /\ file.dir = "tasks"
  /\ file.data.type \in {"pause_task", "resume_task", "cancel_task"}
  /\ file.data.task_id \in TaskIds
  /\ getTask(tasks, file.data.task_id) # NoTask
  /\ getTask(tasks, file.data.task_id).group_folder = file.source

\* C40: when the watcher handles a pause, resume or cancel request written
\* by the task tools for a task owned by the requesting group, the task
\* becomes paused, active or deleted.
C40_ToolRequestTakesEffect ==
  [][ (IpcFileProcessed /\ OwnTaskRequest(ipc'.last)) =>
        tasks'[ipc'.last.data.task_id].status = RequestedStatus(ipc'.last.data.type) ]_vars

\* the team agent asked to pause its own task, the watcher handled and
\* removed the file, and the task is still active
C40_Witness ==
  /\ [source |-> "team", dir |-> "tasks",
      data |-> handleTaskAction("pause", 2, [chatJid |-> "c2", groupFolder |-> "team",
                                             isMain |-> FALSE])] \in ipc.deleted
  /\ tasks[2].status = "active" /\ tasks[2].group_folder = "team"

\* what holds: a request written by the task tools changes no task
C40_ToolRequestChangesNothing ==
  [][ IpcFileProcessed => tasks' = tasks ]_vars

====
